---------------------------- MODULE Spec2Model ----------------------------
(***************************************************************************)
(* AI Defender agent core: the network kill switch, its persisted state    *)
(* machine with the failsafe, the firewall actuator, the response engine   *)
(* and the agent loop, as a state machine.                                 *)
(*                                                                         *)
(* Processes: the long-running agent (service or console mode) and the     *)
(* short-lived operator console.  Both load the config and run             *)
(* reconcile_on_startup before anything else.  Every action runs one       *)
(* kill-switch operation to completion.  A tick of the agent and a run of  *)
(* the console are each scheduled as a unit: while one is under way no     *)
(* other process steps and the clock stands still.  The clock, the config  *)
(* file and the faults of the firewall backend and of the disk are the     *)
(* environment.                                                            *)
(***************************************************************************)
EXTENDS Integers, Sequences, FiniteSets, TLC

VARIABLES
  now,          \* wall clock, unix ms (now_unix_ms)
  cfg,          \* config.toml as loaded by the live processes
  state,        \* killswitch-state.toml (KillSwitchState)
  fw,           \* the two firewall rules carrying the kill-switch rule names
  agent,        \* the agent process: position in Agent::run, dry-run flag
  console,      \* the operator console process: position in run_console, dry-run flag
  last,         \* what the most recent step did (operation, calls, result)
  manual_lock,  \* history: an operator's enable_manual not yet revoked by an operator
  engine,       \* the rules engine of the agent (Engine: procs, sensitive, enum_hits)
  emitted,      \* the incidents of the latest Engine::process not yet handled
  hist,         \* history: the events the engine has processed
  disk,         \* the other files of the base directory: config, license, threat feed,
                \* bookmark, incidents
  net,          \* the HTTP requests made so far
  scheduler     \* the threat feed's AutoRefreshScheduler

vars ==
  <<now, cfg, state, fw, agent, console, last, manual_lock, engine, emitted, hist, disk, net, scheduler>>

---------------------------------------------------------------------------
(* Bounds of the model *)

MaxMinutes == 2           \* the clock runs over 0 .. MaxMinutes minutes
MaxFailsafeMinutes == 2   \* killswitch.failsafe_minutes ranges over 0 .. this
WindowSeconds == 1        \* correlation_window_seconds of the rules engine
MaxEvents == 3            \* the rules engine processes at most this many events
MaxAccesses == 51         \* the enumerating process makes at most this many accesses
MaxOthers == 1            \* of which at most this many on files that are no protected target
MaxRequests == 1          \* the processes make at most this many fetches of the feed
MaxDryMinutes == 1        \* the clock of the console runs over 0 .. this many minutes
MaxRecords == 1           \* the collector reads events at most this many times
MaxLicenseMinutes == 1    \* the clock of the license operations runs over 0 .. this
MaxFeedSteps == 2         \* the clock of the threat feed makes at most this many steps
MaxFetches == 1           \* the threat feed is fetched at most this many times
MaxWrites == 3            \* files are replaced at most this many times

(* Program constants *)

MsPerMinute == 60000
WordMax == (2^30 - 1) * 2 + 1   \* u64::MAX narrowed to 31 bits; saturation is kept

ACTIVE_RULE_IDS == {"R001", "R002", "R003", "R004", "R005"}

---------------------------------------------------------------------------
(* Option<T>: None is the empty sequence, Some(x) the one-element sequence *)

None == <<>>
Some(x) == <<x>>
IsSome(o) == Len(o) = 1
Get(o) == o[1]

saturating_mul(a, b) ==
  IF a = 0 \/ b = 0 THEN 0
  ELSE IF a > WordMax \div b THEN WordMax ELSE a * b

saturating_add(a, b) ==
  IF a > WordMax - b THEN WordMax ELSE a + b

---------------------------------------------------------------------------
(* Inputs *)

Modes == {"Learning", "Strict"}
Severities == {"Green", "Yellow", "Red"}
IncidentIds == {"uuid_a", "uuid_b"}   \* Uuid::new_v4 of two incidents

Configs ==
  [mode : Modes,
   ks_enabled : BOOLEAN,
   auto_trigger : BOOLEAN,
   failsafe_minutes : 0 .. MaxFailsafeMinutes]

(* The condition of the environment while one operation runs:              *)
(*   none             every call succeeds                                  *)
(*   com_unavailable  CoInitializeEx fails: the netsh fallback is used     *)
(*   netsh_err        COM unavailable and every netsh command fails        *)
(*   com_err          COM initialises, the firewall policy object fails    *)
(*   in_err           COM works, every access to the inbound rule fails    *)
(*   denied           COM reads work, INetFwRules::Add and Remove fail     *)
(*   save_err         writing the state file fails                         *)
Faults ==
  {"none", "com_unavailable", "netsh_err", "com_err", "in_err", "denied", "save_err"}

---------------------------------------------------------------------------
(* KillSwitchState::default *)
DefaultState ==
  [enabled |-> FALSE,
   keep_locked |-> FALSE,
   enabled_mode |-> None,
   enabled_at_unix_ms |-> None,
   failsafe_deadline_unix_ms |-> None,
   last_incident_id |-> None]

NoRules == [out |-> "absent", inb |-> "absent"]

---------------------------------------------------------------------------
(* kill_switch/firewall.rs.  Windows Firewall does not key rules by name.  *)
(* A rule slot tells which rules carry one of the two kill-switch names:   *)
(*   absent   none                                                         *)
(*   ours     the rule of group AI_DEFENDER_KILLSWITCH, as the code writes *)
(*            it (enabled, block, all profiles, any protocol and address)  *)
(*   altered  a rule of our group whose properties were changed            *)
(*   foreign  a rule of another group                                      *)
(*   both     a foreign rule and ours side by side                         *)
(* Every operation returns [fw, ok, err]: the rule set it leaves, whether  *)
(* it returned Ok, and the message of its error.                           *)

RuleSlots == {"absent", "ours", "altered", "foreign", "both"}
InGroup(rule) == rule \in {"ours", "altered", "both"}
HasForeign(rule) == rule \in {"foreign", "both"}

NoError == ""
Collision == "rule name collision (not in AI_DEFENDER_KILLSWITCH group)"
ComError == "COM error"
NetshFailed == "netsh failed"

ComUnavailable(f) == f \in {"com_unavailable", "netsh_err"}

(* INetFwRules::Item for a name: the rule it answers with.  When two rules *)
(* carry the name the environment decides which (fault item_foreign: the   *)
(* foreign one); Remove resolves the name in the same way.                 *)
Item(rule, f) ==
  IF rule = "both" THEN (IF f = "item_foreign" THEN "foreign" ELSE "ours") ELSE rule

(* Seeded fault: ensure_rule without the ownership check *)
ensure_rule_without_ownership_check(rule, f, item_err, add_err) ==
  IF item_err THEN [rule |-> rule, ok |-> FALSE, err |-> ComError]
  ELSE IF Item(rule, f) # "absent" THEN [rule |-> "ours", ok |-> TRUE, err |-> NoError]
  ELSE IF add_err THEN [rule |-> rule, ok |-> FALSE, err |-> ComError]
  ELSE [rule |-> "ours", ok |-> TRUE, err |-> NoError]

(* Seeded fault: ensure_rule that leaves an existing rule of our group as  *)
(* it finds it                                                             *)
ensure_rule_keeping_properties(rule, f, item_err, add_err) ==
  IF item_err THEN [rule |-> rule, ok |-> FALSE, err |-> ComError]
  ELSE IF Item(rule, f) = "foreign" THEN [rule |-> rule, ok |-> FALSE, err |-> Collision]
  ELSE IF Item(rule, f) \in {"ours", "altered"}
  THEN [rule |-> rule, ok |-> TRUE, err |-> NoError]
  ELSE IF add_err THEN [rule |-> rule, ok |-> FALSE, err |-> ComError]
  ELSE [rule |-> "ours", ok |-> TRUE, err |-> NoError]

(* com::ensure_rule with apply_rule_properties *)
ensure_rule(rule, f, item_err, add_err) ==
  IF item_err THEN [rule |-> rule, ok |-> FALSE, err |-> ComError]
  ELSE IF Item(rule, f) = "foreign" THEN [rule |-> rule, ok |-> FALSE, err |-> Collision]
  ELSE IF Item(rule, f) \in {"ours", "altered"}
  THEN [rule |-> IF rule = "both" THEN "both" ELSE "ours", ok |-> TRUE, err |-> NoError]
  ELSE IF add_err THEN [rule |-> rule, ok |-> FALSE, err |-> ComError]
  ELSE [rule |-> "ours", ok |-> TRUE, err |-> NoError]

(* com::remove_rule_if_ours: the result of Remove is discarded *)
remove_rule_if_ours(rule, f, item_err, remove_err) ==
  IF item_err THEN [rule |-> rule, ok |-> FALSE, err |-> ComError]
  ELSE IF Item(rule, f) = "absent" THEN [rule |-> rule, ok |-> TRUE, err |-> NoError]
  ELSE IF Item(rule, f) = "foreign" THEN [rule |-> rule, ok |-> TRUE, err |-> NoError]
  ELSE IF remove_err THEN [rule |-> rule, ok |-> TRUE, err |-> NoError]
  ELSE [rule |-> IF rule = "both" THEN "foreign" ELSE "absent", ok |-> TRUE, err |-> NoError]

(* com::is_rule_ours, with the caller's unwrap_or(false) *)
is_rule_ours(rule, f, item_err) ==
  IF item_err THEN FALSE ELSE Item(rule, f) \in {"ours", "altered"}

(* com::enable_rules: the outbound rule first, then the inbound rule *)
com_enable_rules(rules, f) ==
  IF f = "com_err" THEN [fw |-> rules, ok |-> FALSE, err |-> ComError]
  ELSE
    LET o == ensure_rule(rules.out, f, FALSE, f = "denied") IN
    IF ~o.ok THEN [fw |-> rules, ok |-> FALSE, err |-> o.err]
    ELSE
      LET i == ensure_rule(rules.inb, f, f = "in_err", f = "denied") IN
      [fw |-> [out |-> o.rule, inb |-> i.rule], ok |-> i.ok, err |-> i.err]

(* com::disable_rules *)
com_disable_rules(rules, f) ==
  IF f = "com_err" THEN [fw |-> rules, ok |-> FALSE, err |-> ComError]
  ELSE
    LET o == remove_rule_if_ours(rules.out, f, FALSE, f = "denied") IN
    IF ~o.ok THEN [fw |-> rules, ok |-> FALSE, err |-> o.err]
    ELSE
      LET i == remove_rule_if_ours(rules.inb, f, f = "in_err", f = "denied") IN
      [fw |-> [out |-> o.rule, inb |-> i.rule], ok |-> i.ok, err |-> i.err]

(* netsh delete rule name=.. group=..: only a rule of our group matches *)
netsh_delete(rule, cmd_err) ==
  IF cmd_err THEN rule
  ELSE IF rule = "both" THEN "foreign"
  ELSE IF InGroup(rule) THEN "absent"
  ELSE rule

(* netsh add rule name=.. group=..: a new rule, beside any rule that has   *)
(* the name already                                                        *)
netsh_add(rule) ==
  IF rule = "absent" THEN "ours" ELSE IF rule = "foreign" THEN "both" ELSE rule

(* netsh::disable_rules: both results are discarded, always Ok *)
netsh_disable_rules(rules, f) ==
  [fw |-> [out |-> netsh_delete(rules.out, f = "netsh_err"),
           inb |-> netsh_delete(rules.inb, f = "netsh_err")],
   ok |-> TRUE, err |-> NoError]

(* netsh::enable_rules: delete our two rules, then add them *)
netsh_enable_rules(rules, f) ==
  LET cleared == netsh_disable_rules(rules, f).fw IN
  IF f = "netsh_err" THEN [fw |-> cleared, ok |-> FALSE, err |-> NetshFailed]
  ELSE [fw |-> [out |-> netsh_add(cleared.out), inb |-> netsh_add(cleared.inb)],
        ok |-> TRUE, err |-> NoError]

(* firewall::enable_rules: netsh only when COM is unavailable *)
enable_rules(rules, f) ==
  IF ComUnavailable(f) THEN netsh_enable_rules(rules, f)
  ELSE com_enable_rules(rules, f)

(* firewall::disable_rules *)
disable_rules(rules, f) ==
  IF ComUnavailable(f) THEN netsh_disable_rules(rules, f)
  ELSE com_disable_rules(rules, f)

(* firewall::rules_status: [ok, outbound_ok, inbound_ok] *)
rules_status(rules, f) ==
  IF f = "com_err" THEN [ok |-> FALSE, outbound_ok |-> FALSE, inbound_ok |-> FALSE]
  ELSE IF ComUnavailable(f)
  THEN [ok |-> TRUE,
        outbound_ok |-> (f # "netsh_err" /\ InGroup(rules.out)),
        inbound_ok |-> (f # "netsh_err" /\ InGroup(rules.inb))]
  ELSE [ok |-> TRUE,
        outbound_ok |-> is_rule_ours(rules.out, f, FALSE),
        inbound_ok |-> is_rule_ours(rules.inb, f, f = "in_err")]

---------------------------------------------------------------------------
(* kill_switch/mod.rs.  Every operation takes the persisted state st, the  *)
(* rule set rules, the process's dry-run flag, the environment's fault f   *)
(* and the clock t, and returns an outcome:                                *)
(*   state, fw   what it leaves on disk and in the firewall                *)
(*   ok          whether it returned Ok                                    *)
(*   calls       the calls it made, in order, each <<function, result>>    *)
(*   reason, incident   the arguments of its disable_with_reason, if any   *)

Outcome(st, rules, ok, calls) ==
  [state |-> st, fw |-> rules, ok |-> ok, calls |-> calls,
   reason |-> "", incident |-> None]

Res(ok) == IF ok THEN "ok" ELSE "err"

(* save_state / write_atomic *)
save_state(old, new, f) ==
  IF f = "save_err" THEN [state |-> old, ok |-> FALSE]
  ELSE [state |-> new, ok |-> TRUE]

(* Seeded fault: should_auto_restore without the keep_locked test *)
should_auto_restore_ignoring_lock(st, t) ==
  IF ~st.enabled THEN FALSE
  ELSE IF st.enabled_mode # Some("AutoRedOnly") THEN FALSE
  ELSE IF ~IsSome(st.failsafe_deadline_unix_ms) THEN FALSE
  ELSE t >= Get(st.failsafe_deadline_unix_ms)

(* should_auto_restore *)
should_auto_restore(st, t) ==
  IF ~st.enabled THEN FALSE
  ELSE IF st.keep_locked THEN FALSE
  ELSE IF st.enabled_mode # Some("AutoRedOnly") THEN FALSE
  ELSE IF ~IsSome(st.failsafe_deadline_unix_ms) THEN FALSE
  ELSE t >= Get(st.failsafe_deadline_unix_ms)

(* set_keep_locked *)
set_keep_locked(st, rules, dry, f, keep_locked) ==
  IF dry THEN Outcome(st, rules, TRUE, <<>>)
  ELSE
    LET s == save_state(st, [st EXCEPT !.keep_locked = keep_locked], f) IN
    Outcome(s.state, rules, s.ok, << <<"save_state", Res(s.ok)>> >>)

(* Seeded fault: enable_manual that leaves the failsafe deadline in place *)
enable_manual_keeping_deadline(st, rules, dry, f, t) ==
  IF dry THEN Outcome(st, rules, TRUE, <<>>)
  ELSE
    LET r == enable_rules(rules, f) IN
    IF ~r.ok THEN Outcome(st, r.fw, FALSE, << <<"enable_rules", "err">> >>)
    ELSE
      LET new == [st EXCEPT !.enabled = TRUE,
                            !.enabled_mode = Some("Manual"),
                            !.enabled_at_unix_ms = Some(t),
                            !.last_incident_id = None]
          s == save_state(st, new, f)
      IN Outcome(s.state, r.fw, s.ok,
                 << <<"enable_rules", "ok">>, <<"save_state", Res(s.ok)>> >>)

(* enable_manual *)
enable_manual(st, rules, dry, f, t) ==
  IF dry THEN Outcome(st, rules, TRUE, <<>>)
  ELSE
    LET r == enable_rules(rules, f) IN
    IF ~r.ok THEN Outcome(st, r.fw, FALSE, << <<"enable_rules", "err">> >>)
    ELSE
      LET new == [st EXCEPT !.enabled = TRUE,
                            !.enabled_mode = Some("Manual"),
                            !.enabled_at_unix_ms = Some(t),
                            !.failsafe_deadline_unix_ms = None,
                            !.last_incident_id = None]
          s == save_state(st, new, f)
      IN Outcome(s.state, r.fw, s.ok,
                 << <<"enable_rules", "ok">>, <<"save_state", Res(s.ok)>> >>)

(* enable_auto *)
(* Seeded fault: enable_auto that leaves keep_locked as it finds it *)
enable_auto_keeping_lock(st, rules, dry, f, t, incident_id, failsafe_minutes) ==
  IF dry THEN Outcome(st, rules, TRUE, <<>>)
  ELSE
    LET r == enable_rules(rules, f) IN
    IF ~r.ok THEN Outcome(st, r.fw, FALSE, << <<"enable_rules", "err">> >>)
    ELSE
      LET enabled_at == t
          deadline == saturating_add(enabled_at,
                                     saturating_mul(failsafe_minutes, MsPerMinute))
          new == [st EXCEPT !.enabled = TRUE,
                            !.enabled_mode = Some("AutoRedOnly"),
                            !.enabled_at_unix_ms = Some(enabled_at),
                            !.failsafe_deadline_unix_ms = Some(deadline),
                            !.last_incident_id = Some(incident_id)]
          s == save_state(st, new, f)
      IN Outcome(s.state, r.fw, s.ok,
                 << <<"enable_rules", "ok">>, <<"save_state", Res(s.ok)>> >>)

enable_auto(st, rules, dry, f, t, incident_id, failsafe_minutes) ==
  IF dry THEN Outcome(st, rules, TRUE, <<>>)
  ELSE
    LET r == enable_rules(rules, f) IN
    IF ~r.ok THEN Outcome(st, r.fw, FALSE, << <<"enable_rules", "err">> >>)
    ELSE
      LET enabled_at == t
          deadline == saturating_add(enabled_at,
                                     saturating_mul(failsafe_minutes, MsPerMinute))
          new == [st EXCEPT !.keep_locked = FALSE,
                            !.enabled = TRUE,
                            !.enabled_mode = Some("AutoRedOnly"),
                            !.enabled_at_unix_ms = Some(enabled_at),
                            !.failsafe_deadline_unix_ms = Some(deadline),
                            !.last_incident_id = Some(incident_id)]
          s == save_state(st, new, f)
      IN Outcome(s.state, r.fw, s.ok,
                 << <<"enable_rules", "ok">>, <<"save_state", Res(s.ok)>> >>)

(* disable_with_reason *)
disable_with_reason(st, rules, dry, f, reason, incident_id) ==
  LET base ==
        IF dry THEN Outcome(st, rules, TRUE, <<>>)
        ELSE
          LET r == disable_rules(rules, f) IN
          IF ~r.ok THEN Outcome(st, r.fw, FALSE, << <<"disable_rules", "err">> >>)
          ELSE
            LET new == [st EXCEPT !.enabled = FALSE,
                                  !.enabled_mode = None,
                                  !.enabled_at_unix_ms = None,
                                  !.failsafe_deadline_unix_ms = None,
                                  !.last_incident_id = None]
                s == save_state(st, new, f)
            IN Outcome(s.state, r.fw, s.ok,
                       << <<"disable_rules", "ok">>, <<"save_state", Res(s.ok)>> >>)
  IN [base EXCEPT !.calls = << <<"disable_with_reason", Res(base.ok)>> >> \o @,
                  !.reason = reason,
                  !.incident = incident_id]

(* Seeded fault: reconcile_on_startup that re-asserts the rules of an ON    *)
(* state before it looks at the failsafe                                   *)
reconcile_on_startup_reasserting_first(c, st, rules, dry, f, t) ==
  IF ~c.ks_enabled
  THEN [disable_with_reason(st, rules, dry, f, "config_disabled_cleanup", None)
          EXCEPT !.ok = TRUE]
  ELSE
    LET q == rules_status(rules, f)
        rules_present == q.ok /\ q.outbound_ok /\ q.inbound_ok
        asked == << <<"rules_status", Res(q.ok)>> >>
    IN
    IF ~st.enabled /\ rules_present
    THEN [disable_with_reason(st, rules, dry, f, "startup_cleanup", None)
            EXCEPT !.ok = TRUE, !.calls = asked \o @]
    ELSE IF st.enabled /\ ~rules_present
    THEN
      IF dry THEN Outcome(st, rules, TRUE, asked)
      ELSE
        LET r == enable_rules(rules, f) IN
        Outcome(st, r.fw, r.ok, asked \o << <<"enable_rules", Res(r.ok)>> >>)
    ELSE IF st.enabled /\ should_auto_restore(st, t)
    THEN [disable_with_reason(st, rules, dry, f, "failsafe_startup", st.last_incident_id)
            EXCEPT !.calls = asked \o @]
    ELSE Outcome(st, rules, TRUE, asked)

(* Seeded fault: reconcile_on_startup that skips the cleanup when the     *)
(* config disables the kill switch                                         *)
reconcile_on_startup_without_config_cleanup(c, st, rules, dry, f, t) ==
  IF ~c.ks_enabled THEN Outcome(st, rules, TRUE, <<>>)
  ELSE
    LET q == rules_status(rules, f)
        rules_present == q.ok /\ q.outbound_ok /\ q.inbound_ok
        asked == << <<"rules_status", Res(q.ok)>> >>
    IN
    IF ~st.enabled /\ rules_present
    THEN [disable_with_reason(st, rules, dry, f, "startup_cleanup", None)
            EXCEPT !.ok = TRUE, !.calls = asked \o @]
    ELSE IF st.enabled /\ should_auto_restore(st, t)
    THEN [disable_with_reason(st, rules, dry, f, "failsafe_startup", st.last_incident_id)
            EXCEPT !.calls = asked \o @]
    ELSE IF st.enabled /\ ~rules_present
    THEN
      IF dry THEN Outcome(st, rules, TRUE, asked)
      ELSE
        LET r == enable_rules(rules, f) IN
        Outcome(st, r.fw, r.ok, asked \o << <<"enable_rules", Res(r.ok)>> >>)
    ELSE Outcome(st, rules, TRUE, asked)

(* reconcile_on_startup *)
reconcile_on_startup(c, st, rules, dry, f, t) ==
  IF ~c.ks_enabled
  THEN [disable_with_reason(st, rules, dry, f, "config_disabled_cleanup", None)
          EXCEPT !.ok = TRUE]
  ELSE
    LET q == rules_status(rules, f)
        rules_present == q.ok /\ q.outbound_ok /\ q.inbound_ok
        asked == << <<"rules_status", Res(q.ok)>> >>
    IN
    IF ~st.enabled /\ rules_present
    THEN [disable_with_reason(st, rules, dry, f, "startup_cleanup", None)
            EXCEPT !.ok = TRUE, !.calls = asked \o @]
    ELSE IF st.enabled /\ should_auto_restore(st, t)
    THEN [disable_with_reason(st, rules, dry, f, "failsafe_startup", st.last_incident_id)
            EXCEPT !.calls = asked \o @]
    ELSE IF st.enabled /\ ~rules_present
    THEN
      IF dry THEN Outcome(st, rules, TRUE, asked)
      ELSE
        LET r == enable_rules(rules, f) IN
        Outcome(st, r.fw, r.ok, asked \o << <<"enable_rules", Res(r.ok)>> >>)
    ELSE Outcome(st, rules, TRUE, asked)

(* Seeded fault: poll_failsafe that never restores *)
poll_failsafe_never(st, rules, dry, f, t) ==
  Outcome(st, rules, TRUE, <<>>)

(* Seeded fault: poll_failsafe that drops the incident id *)
poll_failsafe_without_incident(st, rules, dry, f, t) ==
  IF should_auto_restore(st, t)
  THEN disable_with_reason(st, rules, dry, f, "failsafe_expired", None)
  ELSE Outcome(st, rules, TRUE, <<>>)

(* poll_failsafe *)
poll_failsafe(st, rules, dry, f, t) ==
  IF should_auto_restore(st, t)
  THEN disable_with_reason(st, rules, dry, f, "failsafe_expired", st.last_incident_id)
  ELSE Outcome(st, rules, TRUE, <<>>)

---------------------------------------------------------------------------
(* types.rs, response_engine/mod.rs.  An incident is given by the          *)
(* severities of its findings; its UUID is drawn where it is first read.   *)

Rank(s) == CASE s = "Green" -> 0 [] s = "Yellow" -> 1 [] s = "Red" -> 2

(* types::max_severity: Green for no findings *)
RECURSIVE max_severity(_)
max_severity(findings) ==
  IF findings = <<>> THEN "Green"
  ELSE
    LET rest == max_severity(Tail(findings)) IN
    IF Rank(Head(findings)) >= Rank(rest) THEN Head(findings) ELSE rest

(* Seeded fault: on_red_incident that enforces in Learning mode *)
on_red_incident_enforcing_in_learning(c, st, rules, dry, f, t, incident_id) ==
  LET stub == <<"process_kill_skipped_no_pid", "quarantine_skipped_no_path">>
      idle == Outcome(st, rules, TRUE, <<>>)
  IN
  IF ~c.ks_enabled THEN [out |-> idle, actions |-> stub]
  ELSE IF c.auto_trigger
  THEN
    LET r == enable_auto(st, rules, dry, f, t, incident_id, c.failsafe_minutes)
        e == [r EXCEPT !.calls = << <<"enable_auto", Res(r.ok)>> >> \o @, !.ok = TRUE]
    IN
    IF r.ok
    THEN [out |-> e,
          actions |-> stub \o <<"killswitch_enable_auto", "killswitch_failsafe_deadline_set">>]
    ELSE [out |-> e, actions |-> Append(stub, "killswitch_enable_auto_failed")]
  ELSE [out |-> idle,
        actions |-> Append(stub, "killswitch_skipped_auto_trigger_disabled")]

(* Seeded fault: on_red_incident that does not read killswitch.enabled *)
on_red_incident_ignoring_config(c, st, rules, dry, f, t, incident_id) ==
  LET stub == <<"process_kill_skipped_no_pid", "quarantine_skipped_no_path">>
      idle == Outcome(st, rules, TRUE, <<>>)
  IN
  IF c.mode = "Learning"
  THEN [out |-> idle, actions |-> Append(stub, "killswitch_skipped_learning_mode")]
  ELSE IF c.auto_trigger
  THEN
    LET r == enable_auto(st, rules, dry, f, t, incident_id, c.failsafe_minutes)
        e == [r EXCEPT !.calls = << <<"enable_auto", Res(r.ok)>> >> \o @, !.ok = TRUE]
    IN
    IF r.ok
    THEN [out |-> e,
          actions |-> stub \o <<"killswitch_enable_auto", "killswitch_failsafe_deadline_set">>]
    ELSE [out |-> e, actions |-> Append(stub, "killswitch_enable_auto_failed")]
  ELSE [out |-> idle,
        actions |-> Append(stub, "killswitch_skipped_auto_trigger_disabled")]

(* on_red_incident: the outcome of its enable_auto, if any, and the        *)
(* entries it appends to actions_taken.  It returns Ok on every path.      *)
on_red_incident(c, st, rules, dry, f, t, incident_id) ==
  LET stub == <<"process_kill_skipped_no_pid", "quarantine_skipped_no_path">>
      idle == Outcome(st, rules, TRUE, <<>>)
  IN
  IF ~c.ks_enabled THEN [out |-> idle, actions |-> stub]
  ELSE IF c.mode = "Learning"
  THEN [out |-> idle, actions |-> Append(stub, "killswitch_skipped_learning_mode")]
  ELSE IF c.auto_trigger
  THEN
    LET r == enable_auto(st, rules, dry, f, t, incident_id, c.failsafe_minutes)
        e == [r EXCEPT !.calls = << <<"enable_auto", Res(r.ok)>> >> \o @, !.ok = TRUE]
    IN
    IF r.ok
    THEN [out |-> e,
          actions |-> stub \o <<"killswitch_enable_auto", "killswitch_failsafe_deadline_set">>]
    ELSE [out |-> e, actions |-> Append(stub, "killswitch_enable_auto_failed")]
  ELSE [out |-> idle,
        actions |-> Append(stub, "killswitch_skipped_auto_trigger_disabled")]

(* incident_store::store_incident: whether the record reached the disk *)
store_incident(dry, f) == ~dry /\ f # "save_err"

(* Seeded fault: handle_incident that returns the error of enable_auto *)
handle_incident_surfacing_errors(c, st, rules, dry, f, t, incident_id, findings) ==
  LET sev == max_severity(findings) IN
  IF sev = "Red"
  THEN
    LET r == on_red_incident(c, st, rules, dry, f, t, incident_id) IN
    [out |-> [r.out EXCEPT !.ok = \A i \in 1 .. Len(r.out.calls) :
                                   r.out.calls[i] # <<"enable_auto", "err">>],
     severity |-> sev, actions |-> r.actions,
     stored |-> store_incident(dry, f)]
  ELSE
    [out |-> Outcome(st, rules, TRUE, <<>>), severity |-> sev, actions |-> <<>>,
     stored |-> store_incident(dry, f)]

(* handle_incident: the outcome, the incident as it is handed to the store *)
(* and whether it was stored; it returns Ok on every path.                 *)
handle_incident(c, st, rules, dry, f, t, incident_id, findings) ==
  LET sev == max_severity(findings) IN
  IF sev = "Red"
  THEN
    LET r == on_red_incident(c, st, rules, dry, f, t, incident_id) IN
    [out |-> r.out, severity |-> sev, actions |-> r.actions,
     stored |-> store_incident(dry, f)]
  ELSE
    [out |-> Outcome(st, rules, TRUE, <<>>), severity |-> sev, actions |-> <<>>,
     stored |-> store_incident(dry, f)]

(* Agent::run: strict mode is refused when no rule is active *)
agent_config(c) ==
  IF c.mode = "Strict" /\ ACTIVE_RULE_IDS = {} THEN [c EXCEPT !.mode = "Learning"] ELSE c

---------------------------------------------------------------------------
(* rules_engine.  A path is the sequence of its components, split at the   *)
(* separators; a publisher is a string.  to_ascii_lowercase and trim are   *)
(* tabulated over the words the model uses.                                *)

MsPerSecond == 1000
ENUM_WINDOW_MS == 10000
THRESHOLD == 50
default_failsafe_minutes == 10

saturating_sub(a, b) == IF a > b THEN a - b ELSE 0

LowerWord(w) ==
  CASE w = "C:" -> "c:"
    [] w = "Users" -> "users"
    [] w = "User" -> "user"
    [] w = "AppData" -> "appdata"
    [] w = "Local" -> "local"
    [] w = "Google" -> "google"
    [] w = "Chrome" -> "chrome"
    [] w = "User Data" -> "user data"
    [] w = "Default" -> "default"
    [] w = "BACKUP" -> "backup"
    [] w = "Backup" -> "backup"
    [] w = "Login Data" -> "login data"
    [] w = "History" -> "history"
    [] w = "Temp" -> "temp"
    [] w = "Program Files" -> "program files"
    [] w = "Application" -> "application"
    [] w = "CHROME.EXE" -> "chrome.exe"
    [] OTHER -> w

to_ascii_lowercase(path) == [i \in DOMAIN path |-> LowerWord(path[i])]

(* str::trim followed by to_ascii_lowercase; "" for a blank string *)
TrimLower(s) ==
  CASE s = "  gOoGlE llC  " -> "google llc"
    [] s = "Google LLC" -> "google llc"
    [] s = "Mozilla Corporation" -> "mozilla corporation"
    [] s = "Microsoft Windows" -> "microsoft windows"
    [] s = "Evil Corp" -> "evil corp"
    [] s = "   " -> ""
    [] OTHER -> s

(* str::to_ascii_lowercase alone: the blanks stay *)
LowerOnly(s) ==
  CASE s = "  gOoGlE llC  " -> "  google llc  "
    [] OTHER -> TrimLower(s)

(* p starts with prefix followed by a separator, or is prefix itself *)
starts_with(p, prefix) ==
  Len(prefix) <= Len(p) /\ SubSeq(p, 1, Len(prefix)) = prefix

(* p ends with a separator followed by name *)
ends_with_name(p, name) == Len(p) >= 2 /\ p[Len(p)] = name

(* protected_paths: the roots, lower case, each ending in a separator *)
LocalAppData == <<"c:", "users", "user", "appdata", "local">>
chrome_user_data_root == LocalAppData \o <<"google", "chrome", "user data">>
edge_user_data_root == LocalAppData \o <<"microsoft", "edge", "user data">>
brave_user_data_root == LocalAppData \o <<"bravesoftware", "brave-browser", "user data">>
firefox_profiles_root ==
  <<"c:", "users", "user", "appdata", "roaming", "mozilla", "firefox", "profiles">>

UnderRoot(p, root) == Len(p) > Len(root) /\ starts_with(p, root)

(* protected_paths::is_under_protected_root *)
is_under_protected_root(file_path) ==
  LET p == to_ascii_lowercase(file_path) IN
  \/ UnderRoot(p, chrome_user_data_root)
  \/ UnderRoot(p, edge_user_data_root)
  \/ UnderRoot(p, brave_user_data_root)
  \/ UnderRoot(p, firefox_profiles_root)

ChromeTarget(n) ==
  CASE n = "login data" -> Some("ChromeLoginData")
    [] n = "cookies" -> Some("ChromeCookies")
    [] n = "local state" -> Some("ChromeLocalState")
    [] OTHER -> None

FirefoxTarget(n) ==
  CASE n = "logins.json" -> Some("FirefoxLoginsJson")
    [] n = "key4.db" -> Some("FirefoxKey4Db")
    [] n = "cookies.sqlite" -> Some("FirefoxCookiesSqlite")
    [] OTHER -> None

(* the first configured name, in the order of the list, that the path ends with *)
RECURSIVE first_target(_, _)
first_target(p, names) ==
  IF names = <<>> THEN None
  ELSE IF ends_with_name(p, LowerWord(Head(names))) THEN Some(LowerWord(Head(names)))
  ELSE first_target(p, Tail(names))

(* protected_paths::classify_protected_target *)
classify_protected_target(c, file_path) ==
  LET p == to_ascii_lowercase(file_path)
      chrome == first_target(p, c.chrome_targets)
      firefox == first_target(p, c.firefox_targets)
  IN
  IF (\/ UnderRoot(p, chrome_user_data_root)
      \/ UnderRoot(p, edge_user_data_root)
      \/ UnderRoot(p, brave_user_data_root)) /\ IsSome(chrome)
  THEN ChromeTarget(Get(chrome))
  ELSE IF UnderRoot(p, firefox_profiles_root) /\ IsSome(firefox)
  THEN FirefoxTarget(Get(firefox))
  ELSE None

(* Seeded fault: publisher_allowlisted that folds the case and keeps the blanks *)
publisher_allowlisted_without_trim(c, publisher) ==
  IF ~IsSome(publisher) THEN FALSE
  ELSE \E a \in c.allowlist_publishers : LowerOnly(a) = LowerOnly(Get(publisher))

(* engine::publisher_allowlisted *)
publisher_allowlisted(c, publisher) ==
  IF ~IsSome(publisher) THEN FALSE
  ELSE \E a \in c.allowlist_publishers : TrimLower(a) = TrimLower(Get(publisher))

(* engine::is_path_allowlisted: blank prefixes are skipped *)
is_path_allowlisted(c, path) ==
  \E prefix \in c.paths_allowlist :
    prefix # <<>> /\ starts_with(to_ascii_lowercase(path), to_ascii_lowercase(prefix))

(* engine::is_known_browser_image *)
is_known_browser_image(image_path) ==
  \E exe \in {"chrome.exe", "msedge.exe", "brave.exe", "firefox.exe"} :
    ends_with_name(to_ascii_lowercase(image_path), exe)

(* Seeded fault: is_browser_self_access that never recognises a browser *)
is_browser_self_access_never(image_path) == FALSE

(* engine::is_browser_self_access *)
is_browser_self_access(image_path) == is_known_browser_image(image_path)

(* rules::cap_for_learning: every file rule has default and learning cap Yellow *)
cap_for_learning(c, default_severity) ==
  IF c.mode = "Learning" THEN "Yellow" ELSE default_severity

(* rules::file_access_rule_findings *)
file_access_rule_findings(c, target) ==
  LET rule_id ==
        CASE target = "ChromeLoginData" -> Some("R001")
          [] target = "ChromeCookies" -> Some("R002")
          [] target = "ChromeLocalState" -> Some("R003")
          [] target = "FirefoxLoginsJson" -> Some("R004")
          [] target = "FirefoxKey4Db" -> Some("R005")
          [] OTHER -> None
  IN
  IF IsSome(rule_id)
  THEN << [rule_id |-> Get(rule_id), severity |-> cap_for_learning(c, "Yellow")] >>
  ELSE <<>>

(* the severities of a list of findings *)
severities(findings) == [i \in DOMAIN findings |-> findings[i].severity]

(* Seeded fault: Incident::new that leaves the severity at Green *)
Incident_new_without_severity(findings) ==
  [severity |-> "Green", findings |-> findings]

(* Incident::new; the UUID is drawn where the incident is handled *)
Incident_new(findings) ==
  [severity |-> max_severity(severities(findings)), findings |-> findings]

(* Engine::new *)
Pids == {1, 2}
EngineNew ==
  [procs |-> [p \in Pids |-> None],
   sensitive |-> [p \in Pids |-> <<>>],
   enum_hits |-> [p \in Pids |-> <<>>]]

(* History: the file accesses processed so far that classify to a          *)
(* protected target, each with what was true of it when it was processed;  *)
(* per pid the latest timestamp of its file and network events and whether *)
(* they came in the order of their timestamps; per pid whether the engine  *)
(* has recorded an access since the latest ProcessStart of the pid; the    *)
(* number of events.                                                       *)
NoHist ==
  [accesses |-> {},
   max_ts |-> [p \in Pids |-> 0],
   ordered |-> [p \in Pids |-> TRUE],
   since_start |-> [p \in Pids |-> FALSE],
   n |-> 0]

(* Engine::prune_old on one deque of sensitive accesses *)
RECURSIVE prune_old(_, _, _)
prune_old(q, now_unix_ms, window_seconds) ==
  IF q = <<>> THEN q
  ELSE IF saturating_sub(now_unix_ms, Head(q).ts) <= saturating_mul(window_seconds, MsPerSecond)
  THEN q
  ELSE prune_old(Tail(q), now_unix_ms, window_seconds)

(* Engine::prune_enum_old on one deque of timestamps *)
RECURSIVE prune_enum_old(_, _)
prune_enum_old(q, now_unix_ms) ==
  IF q = <<>> THEN q
  ELSE IF saturating_sub(now_unix_ms, Head(q)) <= ENUM_WINDOW_MS THEN q
  ELSE prune_enum_old(Tail(q), now_unix_ms)

(* Seeded fault: is_enumerating with a strict comparison *)
is_enumerating_above_threshold(q) == Len(q) > THRESHOLD

(* Engine::is_enumerating on one deque *)
is_enumerating(q) == Len(q) >= THRESHOLD

(* Engine::proc_info *)
proc_info(eng, pid, image_path) ==
  IF IsSome(eng.procs[pid]) THEN Get(eng.procs[pid])
  ELSE [image_path |-> IF IsSome(image_path) THEN Get(image_path) ELSE <<"<unknown>">>,
        signer_publisher |-> None]

(* Engine::process, ProcessStart: [engine, incidents] *)
on_process_start(c, eng, ev) ==
  [engine |-> [eng EXCEPT !.procs[ev.pid] =
                 Some([image_path |-> ev.image_path,
                       signer_publisher |-> ev.signer_publisher])],
   incidents |-> <<>>]

(* Engine::process, FileAccess *)
on_file_access(c, eng, ev) ==
  LET pruned == [eng EXCEPT
                   !.sensitive[ev.pid] = prune_old(@, ev.ts, c.correlation_window_seconds),
                   !.enum_hits[ev.pid] = prune_enum_old(@, ev.ts)]
      proc == proc_info(pruned, ev.pid, ev.image_path)
      target == classify_protected_target(c, ev.file_path)
      recorded == [pruned EXCEPT
                     !.sensitive[ev.pid] =
                        Append(@, [ts |-> ev.ts, file_path |-> ev.file_path,
                                   target |-> Get(target)])]
      allowlisted == publisher_allowlisted(c, proc.signer_publisher)
      rule == IF allowlisted THEN <<>> ELSE file_access_rule_findings(c, Get(target))
      unknown == IF IsSome(proc.signer_publisher)
                 THEN TrimLower(Get(proc.signer_publisher)) = ""
                 ELSE TRUE
      r008 == IF unknown /\ ~allowlisted
              THEN << [rule_id |-> "R008", severity |-> "Yellow"] >> ELSE <<>>
      counted == is_under_protected_root(ev.file_path) /\ ~allowlisted
      hit == IF counted
             THEN [recorded EXCEPT !.enum_hits[ev.pid] = Append(@, ev.ts)]
             ELSE recorded
      r007 == IF counted /\ is_enumerating(hit.enum_hits[ev.pid])
              THEN << [rule_id |-> "R007", severity |-> "Yellow"] >> ELSE <<>>
      findings == rule \o r008 \o r007
  IN
  IF is_path_allowlisted(c, ev.file_path) THEN [engine |-> pruned, incidents |-> <<>>]
  ELSE IF ~IsSome(target) THEN [engine |-> pruned, incidents |-> <<>>]
  ELSE IF is_browser_self_access(proc.image_path)
  THEN [engine |-> recorded, incidents |-> <<>>]
  ELSE [engine |-> hit,
        incidents |-> IF findings = <<>> THEN <<>> ELSE << Incident_new(findings) >>]

(* Seeded fault: NetConnect handling whose window excludes its boundary *)
on_net_connect_exclusive_window(c, eng, ev) ==
  LET pruned == [eng EXCEPT
                   !.sensitive[ev.pid] = prune_old(@, ev.ts, c.correlation_window_seconds)]
      proc == proc_info(pruned, ev.pid, ev.image_path)
      q == pruned.sensitive[ev.pid]
      access == q[Len(q)]
      window_ms == saturating_mul(c.correlation_window_seconds, MsPerSecond)
      delta_ms == saturating_sub(ev.ts, access.ts)
      r010 == IF ~IsSome(ev.dest_host) \/ TrimLower(Get(ev.dest_host)) = ""
              THEN << [rule_id |-> "R010", severity |-> "Red"] >> ELSE <<>>
      findings == << [rule_id |-> "R009", severity |-> "Red"] >> \o r010
  IN
  IF q = <<>> THEN [engine |-> pruned, incidents |-> <<>>]
  ELSE IF is_browser_self_access(proc.image_path)
  THEN [engine |-> pruned, incidents |-> <<>>]
  ELSE IF delta_ms >= window_ms THEN [engine |-> pruned, incidents |-> <<>>]
  ELSE [engine |-> pruned, incidents |-> << Incident_new(findings) >>]

(* Engine::process, NetConnect *)
on_net_connect(c, eng, ev) ==
  LET pruned == [eng EXCEPT
                   !.sensitive[ev.pid] = prune_old(@, ev.ts, c.correlation_window_seconds)]
      proc == proc_info(pruned, ev.pid, ev.image_path)
      q == pruned.sensitive[ev.pid]
      access == q[Len(q)]
      allowlisted == publisher_allowlisted(c, proc.signer_publisher)
      suspicious == ~allowlisted \/ ~is_known_browser_image(proc.image_path)
      window_ms == saturating_mul(c.correlation_window_seconds, MsPerSecond)
      delta_ms == saturating_sub(ev.ts, access.ts)
      r010 == IF ~IsSome(ev.dest_host) \/ TrimLower(Get(ev.dest_host)) = ""
              THEN << [rule_id |-> "R010", severity |-> "Red"] >> ELSE <<>>
      findings == << [rule_id |-> "R009", severity |-> "Red"] >> \o r010
  IN
  IF q = <<>> THEN [engine |-> pruned, incidents |-> <<>>]
  ELSE IF is_browser_self_access(proc.image_path)
  THEN [engine |-> pruned, incidents |-> <<>>]
  ELSE IF ~suspicious THEN [engine |-> pruned, incidents |-> <<>>]
  ELSE IF delta_ms > window_ms THEN [engine |-> pruned, incidents |-> <<>>]
  ELSE [engine |-> pruned, incidents |-> << Incident_new(findings) >>]

(* Engine::process: the events of a batch in order, the incidents collected *)
RECURSIVE process(_, _, _)
process(c, eng, events) ==
  IF events = <<>> THEN [engine |-> eng, incidents |-> <<>>]
  ELSE
    LET ev == Head(events)
        one == CASE ev.type = "ProcessStart" -> on_process_start(c, eng, ev)
                 [] ev.type = "FileAccess" -> on_file_access(c, eng, ev)
                 [] ev.type = "NetConnect" -> on_net_connect(c, eng, ev)
        rest == process(c, one.engine, Tail(events))
    IN [engine |-> rest.engine, incidents |-> one.incidents \o rest.incidents]

---------------------------------------------------------------------------
(* The other files of the base directory.  A file that holds signed bytes  *)
(* is known by what the verification makes of it; the timestamps are unix  *)
(* seconds.                                                                *)
(*   config          config.toml: absent, partial (sections missing), full *)
(*   license         license.json with license.sig                         *)
(*   activation      license/activation.json                               *)
(*   device_id       device_id.txt exists                                  *)
(*   license_status  license/status.toml                                   *)
(*   feed_bundle     threat-feed/bundle.json and bundle.sig                *)
(*   feed_last_good  threat-feed/bundle.json.last-good and its signature   *)
(*   feed_meta       the threat feed's metadata file                       *)
(*   feed_state      threat-feed/state.toml                                *)
(*   bookmark        sysmon-bookmark.toml: last_record_id                  *)
(*   incidents       incidents/{id}.toml                                   *)

(* A bundle file and a signature file: the bundle by its name, the         *)
(* signature by the name of the bundle it was made for                     *)
Pair(bytes) == [bundle |-> bytes, sig |-> bytes]

NoPair == Pair("absent")

NoDisk ==
  [config |-> "absent", license |-> "absent", activation |-> None, device_id |-> FALSE,
   license_status |-> None, feed_bundle |-> NoPair, feed_last_good |-> NoPair,
   feed_meta |-> None, feed_state |-> None, bookmark |-> 0, incidents |-> {}]

now_unix_s(t) == t \div MsPerSecond

(* config::load_or_create_default: load_impl with allow_writes; the file it *)
(* leaves                                                                   *)
load_or_create_default(d) ==
  IF d.config = "absent" THEN [d EXCEPT !.config = "full"]
  ELSE IF d.config = "partial" THEN [d EXCEPT !.config = "full"]
  ELSE d

(* The license or bundle files an operator hands over, and what a fetch of *)
(* the feed's endpoint brings.  A license file is known by a name; Payload *)
(* tells what the verification and the parse make of it: whether the       *)
(* signature verifies, whether the fields pass validate_fields' schema      *)
(* checks, expires_at in unix seconds, and the license_id.                  *)
(*   valid      signed, schema valid, never expires, license lic_a          *)
(*   renewal    another file of the same license lic_a                      *)
(*   other      signed, schema valid, never expires, license lic_b          *)
(*   expiring   signed, schema valid, license lic_a, expires at one minute  *)
(*   expired    signed, schema valid, license lic_a, expired at 0           *)
(*   malformed  signed, a field fails the schema, license lic_a             *)
(*   unsigned   the signature does not verify                               *)
LicenseFiles ==
  {"valid", "renewal", "other", "expiring", "expired", "malformed", "unsigned"}

(* The bundle files, by what the verification and the parse make of them:  *)
(*   good      signed by the feed's key, schema valid, rules_version 1     *)
(*   newer     signed, schema valid, another bundle_id, rules_version 2    *)
(*   noschema  signed, rules_version 0: fails validate_bundle_schema       *)
(*   bad       not signed by the feed's key, claims rules_version 3        *)
BundleFiles == {"good", "newer", "noschema", "bad"}
Fetches == BundleFiles \cup {"error"}

Bundle(bytes) ==
  [signed |-> bytes # "bad",
   bundle_id |-> CASE bytes = "good" -> "bundle_a"
                   [] bytes = "newer" -> "bundle_b"
                   [] bytes = "noschema" -> "bundle_c"
                   [] OTHER -> "bundle_d",
   rules_version |-> CASE bytes = "good" -> 1
                       [] bytes = "newer" -> 2
                       [] bytes = "noschema" -> 0
                       [] OTHER -> 3]

(* threat_feed::validate_bundle_schema *)
validate_bundle_schema(bundle) == bundle.rules_version # 0

(* The faults of the file system during install_verified_bundle: the write *)
(* that fails                                                              *)
InstallFaults ==
  {"none", "bundle_err", "sig_err", "last_good_err", "last_good_sig_err", "meta_err"}

Payload(bytes) ==
  [signed |-> bytes # "unsigned",
   schema |-> bytes # "malformed",
   expires_at |-> CASE bytes = "expiring" -> Some(now_unix_s(MsPerMinute))
                    [] bytes = "expired" -> Some(0)
                    [] OTHER -> None,
   license_id |-> IF bytes = "other" THEN "lic_b" ELSE "lic_a"]

SchemaReason == "plan must be \"pro\""
ExpiredReason == "license expired"
NotActivatedReason ==
  "license is valid but not activated on this device (local activation only; server activation planned)"

(* license::validate_fields: the state and the reason *)
validate_fields(payload, t) ==
  IF ~payload.schema THEN [state |-> "ProInvalid", reason |-> Some(SchemaReason)]
  ELSE IF IsSome(payload.expires_at) /\ Get(payload.expires_at) <= now_unix_s(t)
  THEN [state |-> "ProExpired", reason |-> Some(ExpiredReason)]
  ELSE [state |-> "ProActive", reason |-> None]

(* license::validate_payload_and_signature; absent: the files cannot be read *)
validate_payload_and_signature(bytes, t) ==
  IF bytes = "absent" \/ ~Payload(bytes).signed
  THEN [ok |-> FALSE, state |-> "", reason |-> None, license_id |-> ""]
  ELSE LET vf == validate_fields(Payload(bytes), t)
       IN [ok |-> TRUE, state |-> vf.state, reason |-> vf.reason,
           license_id |-> Payload(bytes).license_id]

(* license::write_status *)
write_status(d, st, license_id, reason, t) ==
  [d EXCEPT !.license_status =
     Some([state |-> st, license_id |-> license_id, reason |-> reason,
           checked_at |-> now_unix_s(t)])]

Reported(d, st, reason) == [disk |-> d, state |-> st, reason |-> reason]

(* license::status: the disk it leaves, the state and the reason it        *)
(* reports.  After the signature has verified only ProExpired is told      *)
(* apart; every other state of validate_fields goes on to the activation.  *)
license_status(d, t) ==
  IF d.license = "absent"
  THEN Reported(write_status(d, "Community", None, Some("no license installed"), t),
                "Community", Some("no license installed"))
  ELSE
    LET v == validate_payload_and_signature(d.license, t) IN
    IF ~v.ok
    THEN Reported(write_status(d, "ProInvalid", None, Some("invalid license"), t),
                  "ProInvalid", Some("invalid license"))
    ELSE IF v.state = "ProExpired"
    THEN Reported(write_status(d, "ProExpired", Some(v.license_id), v.reason, t),
                  "ProExpired", v.reason)
    ELSE IF ~(IsSome(d.activation) /\ Get(d.activation).license_id = v.license_id)
    THEN Reported(write_status(d, "ProInvalid", Some(v.license_id),
                               Some(NotActivatedReason), t),
                  "ProInvalid", Some(NotActivatedReason))
    ELSE
      LET act2 == [Get(d.activation) EXCEPT !.last_verified_at = now_unix_s(t)]
      IN Reported(write_status([d EXCEPT !.activation = Some(act2)], "ProActive",
                               Some(v.license_id), v.reason, t),
                  "ProActive", v.reason)

(* license::install_license *)
install_license(d, from_license, t) ==
  LET v == validate_payload_and_signature(from_license, t) IN
  IF ~v.ok \/ v.state \notin {"ProActive", "ProExpired"}
  THEN [disk |-> d, ok |-> FALSE, state |-> ""]
  ELSE
    LET copied == [d EXCEPT !.license = from_license]
        st == license_status(
                write_status(copied, "ProInvalid", Some(v.license_id),
                             Some("license installed; activation required"), t), t)
    IN [disk |-> st.disk, ok |-> TRUE, state |-> st.state]

(* Seeded fault: activate that writes no activation *)
activate_without_activation(d, t) ==
  LET v == validate_payload_and_signature(d.license, t) IN
  IF ~v.ok THEN [disk |-> d, ok |-> FALSE, state |-> ""]
  ELSE IF v.state = "ProExpired"
  THEN [disk |-> write_status(d, "ProExpired", Some(v.license_id), v.reason, t),
        ok |-> TRUE, state |-> "ProExpired"]
  ELSE IF v.state # "ProActive" THEN [disk |-> d, ok |-> FALSE, state |-> ""]
  ELSE
    LET st == license_status([d EXCEPT !.device_id = TRUE], t)
    IN [disk |-> st.disk, ok |-> TRUE, state |-> st.state]

(* license::activate *)
activate(d, t) ==
  LET v == validate_payload_and_signature(d.license, t) IN
  IF ~v.ok THEN [disk |-> d, ok |-> FALSE, state |-> ""]
  ELSE IF v.state = "ProExpired"
  THEN [disk |-> write_status(d, "ProExpired", Some(v.license_id), v.reason, t),
        ok |-> TRUE, state |-> "ProExpired"]
  ELSE IF v.state # "ProActive" THEN [disk |-> d, ok |-> FALSE, state |-> ""]
  ELSE
    LET act == [activated_at |-> now_unix_s(t), license_id |-> v.license_id,
                last_verified_at |-> now_unix_s(t)]
        st == license_status([d EXCEPT !.device_id = TRUE, !.activation = Some(act)], t)
    IN [disk |-> st.disk, ok |-> TRUE, state |-> st.state]

(* license::deactivate *)
deactivate(d, t) ==
  LET st == license_status([d EXCEPT !.activation = None], t)
  IN [disk |-> write_status(st.disk, st.state, st.disk.license_status[1].license_id,
                            st.reason, t),
      ok |-> TRUE]

(* BundleMeta::default and threat_feed::read_meta *)
BundleMeta_default ==
  [last_imported_at |-> None, last_verified_at |-> None,
   last_refresh_attempt_at |-> None, last_refresh_result |-> None]

read_meta(d) == IF IsSome(d.feed_meta) THEN Get(d.feed_meta) ELSE BundleMeta_default

write_meta(d, meta) == [d EXCEPT !.feed_meta = Some(meta)]

(* threat_feed::verify_bundle_bytes: the bundle, if the signature is the   *)
(* feed's signature of these bytes and the schema holds                    *)
verify_bundle_bytes(pair) ==
  IF /\ pair.bundle \in BundleFiles
     /\ pair.sig = pair.bundle
     /\ Bundle(pair.bundle).signed
     /\ validate_bundle_schema(Bundle(pair.bundle))
  THEN Some(pair.bundle)
  ELSE None

(* threat_feed::mark_verified *)
mark_verified(d, t) ==
  write_meta(d, [read_meta(d) EXCEPT !.last_verified_at = Some(now_unix_s(t))])

(* Seeded fault: load_current_at that takes the last-known-good pair as it is *)
load_current_at_trusting_last_good(d, t) ==
  LET bundle == verify_bundle_bytes(d.feed_bundle) IN
  IF IsSome(bundle)
  THEN [disk |-> mark_verified(d, t), present |-> TRUE, bundle |-> bundle]
  ELSE [disk |-> d, present |-> d.feed_last_good.bundle # "absent",
        bundle |-> IF d.feed_last_good.bundle # "absent"
                   THEN Some(d.feed_last_good.bundle) ELSE None]

(* Seeded fault: load_current_at that does not fall back on the            *)
(* last-known-good pair                                                    *)
load_current_at_without_fallback(d, t) ==
  LET bundle == verify_bundle_bytes(d.feed_bundle) IN
  IF IsSome(bundle)
  THEN [disk |-> mark_verified(d, t), present |-> TRUE, bundle |-> bundle]
  ELSE [disk |-> d, present |-> FALSE, bundle |-> None]

(* threat_feed::load_current_at, verify_files and verify_last_good *)
load_current_at(d, t) ==
  LET bundle == verify_bundle_bytes(d.feed_bundle) IN
  IF IsSome(bundle)
  THEN [disk |-> mark_verified(d, t), present |-> TRUE, bundle |-> bundle]
  ELSE [disk |-> d, present |-> IsSome(verify_bundle_bytes(d.feed_last_good)),
        bundle |-> verify_bundle_bytes(d.feed_last_good)]

(* threat_feed::bundle_status_at: the metadata is read before the bundle   *)
bundle_status_at(d, t) ==
  LET meta == read_meta(d)
      cur == load_current_at(d, t)
  IN [disk |-> cur.disk, present |-> cur.present,
      last_refresh_result |-> meta.last_refresh_result]

(* threat_feed::write_state *)
write_state(d, installed, reason, t) ==
  LET bundle == bundle_status_at(d, t)
  IN [bundle.disk EXCEPT !.feed_state =
        Some([installed |-> installed, checked_at |-> now_unix_s(t), reason |-> reason,
              last_refresh_result |-> bundle.last_refresh_result])]

(* threat_feed::status *)
feed_status(d, t) ==
  LET st == bundle_status_at(d, t) IN
  IF ~st.present
  THEN write_state(st.disk, FALSE, Some("no valid bundle installed"), t)
  ELSE write_state(st.disk, TRUE, st.last_refresh_result, t)

(* Seeded fault: an install that leaves bundle.json and bundle.sig alone   *)
(* and writes the last-known-good copy only                                *)
install_verified_bundle_last_good_only(d, pair, t, f) ==
  IF f # "none" THEN [disk |-> d, ok |-> FALSE]
  ELSE LET d4 == [d EXCEPT !.feed_last_good = pair]
       IN [disk |-> write_meta(d4, [read_meta(d4) EXCEPT
                                      !.last_imported_at = Some(now_unix_s(t)),
                                      !.last_verified_at = Some(now_unix_s(t))]),
           ok |-> TRUE]

(* threat_feed::install_verified_bundle and write_last_good: four files    *)
(* and the metadata are written one after the other, each write atomic,    *)
(* and the first write that fails ends the install                         *)
install_verified_bundle(d, pair, t, f) ==
  IF f = "bundle_err" THEN [disk |-> d, ok |-> FALSE]
  ELSE
    LET d1 == [d EXCEPT !.feed_bundle.bundle = pair.bundle] IN
    IF f = "sig_err" THEN [disk |-> d1, ok |-> FALSE]
    ELSE
      LET d2 == [d1 EXCEPT !.feed_bundle.sig = pair.sig] IN
      IF f = "last_good_err" THEN [disk |-> d2, ok |-> FALSE]
      ELSE
        LET d3 == [d2 EXCEPT !.feed_last_good.bundle = pair.bundle] IN
        IF f = "last_good_sig_err" THEN [disk |-> d3, ok |-> FALSE]
        ELSE
          LET d4 == [d3 EXCEPT !.feed_last_good.sig = pair.sig] IN
          IF f = "meta_err" THEN [disk |-> d4, ok |-> FALSE]
          ELSE [disk |-> write_meta(d4, [read_meta(d4) EXCEPT
                                           !.last_imported_at = Some(now_unix_s(t)),
                                           !.last_verified_at = Some(now_unix_s(t))]),
                ok |-> TRUE]

(* threat_feed::import *)
import(d, src, t, f) ==
  IF ~IsSome(verify_bundle_bytes(src)) THEN [disk |-> d, ok |-> FALSE]
  ELSE LET r == install_verified_bundle(d, src, t, f)
       IN IF ~r.ok THEN [disk |-> r.disk, ok |-> FALSE]
          ELSE [disk |-> bundle_status_at(r.disk, t).disk, ok |-> TRUE]

(* threat_feed::auto_refresh_eligibility; config::normalize has switched   *)
(* auto_refresh off if the feed's settings are invalid                     *)
auto_refresh_eligibility(c, d, t) ==
  IF ~c.auto_refresh THEN [disk |-> d, eligible |-> FALSE]
  ELSE LET lic == license_status(d, t)
       IN [disk |-> lic.disk, eligible |-> lic.state = "ProActive"]

(* threat_feed::refresh_now; fetch::fetch_bundle makes the HTTP requests   *)
refresh_now(c, d, n, t, fetched, f) ==
  LET e == auto_refresh_eligibility(c, d, t) IN
  IF ~e.eligible THEN [disk |-> e.disk, net |-> n, attempted |-> FALSE, success |-> FALSE]
  ELSE
    LET meta == [read_meta(e.disk) EXCEPT !.last_refresh_attempt_at = Some(now_unix_s(t))]
    IN
    IF fetched = "error"
    THEN [disk |-> write_meta(e.disk, [meta EXCEPT !.last_refresh_result = Some("failed")]),
          net |-> n + 1, attempted |-> TRUE, success |-> FALSE]
    ELSE IF ~IsSome(verify_bundle_bytes(Pair(fetched)))
    THEN [disk |-> write_meta(e.disk, [meta EXCEPT
                     !.last_refresh_result = Some("failed: verification")]),
          net |-> n + 1, attempted |-> TRUE, success |-> FALSE]
    ELSE
      LET installed == install_verified_bundle(e.disk, Pair(fetched), t, f) IN
      IF ~installed.ok
      THEN [disk |-> write_meta(installed.disk, [meta EXCEPT
                       !.last_refresh_result = Some("failed: install")]),
            net |-> n + 1, attempted |-> TRUE, success |-> FALSE]
      ELSE
        LET meta2 == [read_meta(installed.disk) EXCEPT
                        !.last_refresh_attempt_at = Some(now_unix_s(t)),
                        !.last_refresh_result = Some("success")]
        IN [disk |-> write_meta(installed.disk, meta2),
            net |-> n + 1, attempted |-> TRUE, success |-> TRUE]

(* AutoRefreshScheduler::default *)
AutoRefreshScheduler_default == [next_due_unix_ms |-> None]

(* Seeded fault: a tick that keeps next_due when the refresh has failed     *)
tick_keeping_due_on_failure(sch, c, d, n, t, fetched, f) ==
  LET eligibility == auto_refresh_eligibility(c, d, t) IN
  IF ~eligibility.eligible
  THEN [scheduler |-> [sch EXCEPT !.next_due_unix_ms = None],
        disk |-> eligibility.disk, net |-> n, refreshes |-> 0]
  ELSE
    LET interval_ms == saturating_mul(c.refresh_interval_minutes, MsPerMinute) IN
    IF ~IsSome(sch.next_due_unix_ms)
    THEN [scheduler |-> [sch EXCEPT !.next_due_unix_ms = Some(saturating_add(t, interval_ms))],
          disk |-> eligibility.disk, net |-> n, refreshes |-> 0]
    ELSE IF t < Get(sch.next_due_unix_ms)
    THEN [scheduler |-> sch, disk |-> eligibility.disk, net |-> n, refreshes |-> 0]
    ELSE
      LET result == refresh_now(c, eligibility.disk, n, t, fetched, f)
      IN [scheduler |-> IF result.success
                        THEN [sch EXCEPT !.next_due_unix_ms =
                                Some(saturating_add(t, interval_ms))]
                        ELSE sch,
          disk |-> result.disk, net |-> result.net, refreshes |-> 1]

(* AutoRefreshScheduler::tick: the scheduler, the directory and the        *)
(* requests it leaves, and the calls of refresh_now it made                *)
tick(sch, c, d, n, t, fetched, f) ==
  LET eligibility == auto_refresh_eligibility(c, d, t) IN
  IF ~eligibility.eligible
  THEN [scheduler |-> [sch EXCEPT !.next_due_unix_ms = None],
        disk |-> eligibility.disk, net |-> n, refreshes |-> 0]
  ELSE
    LET interval_ms == saturating_mul(c.refresh_interval_minutes, MsPerMinute) IN
    IF ~IsSome(sch.next_due_unix_ms)
    THEN [scheduler |-> [sch EXCEPT !.next_due_unix_ms = Some(saturating_add(t, interval_ms))],
          disk |-> eligibility.disk, net |-> n, refreshes |-> 0]
    ELSE IF t < Get(sch.next_due_unix_ms)
    THEN [scheduler |-> sch, disk |-> eligibility.disk, net |-> n, refreshes |-> 0]
    ELSE
      LET result == refresh_now(c, eligibility.disk, n, t, fetched, f)
      IN [scheduler |-> [sch EXCEPT !.next_due_unix_ms = Some(saturating_add(t, interval_ms))],
          disk |-> result.disk, net |-> result.net, refreshes |-> 1]

---------------------------------------------------------------------------
(* The record of a step *)

Step(op, dry, o) ==
  [op |-> op, dry |-> dry, ok |-> o.ok, calls |-> o.calls,
   reason |-> o.reason, incident |-> o.incident,
   id |-> None, severity |-> "", actions |-> <<>>, stored |-> FALSE]

Quiet(op) == Step(op, FALSE, Outcome(DefaultState, NoRules, TRUE, <<>>))

AgentDown == [pc |-> "down", dry |-> FALSE]
ConsoleIdle == [pc |-> "idle", dry |-> FALSE]

(* The findings of an incident: Engine::process emits one only for a      *)
(* non-empty list of findings.                                             *)
FindingLists == {<<"Yellow">>, <<"Yellow", "Red">>}

Init ==
  /\ now = 0
  /\ cfg \in Configs
  /\ state = DefaultState
  /\ fw = NoRules
  /\ agent = AgentDown
  /\ console = ConsoleIdle
  /\ last = Quiet("init")
  /\ manual_lock = FALSE
  /\ engine = EngineNew
  /\ emitted = <<>>
  /\ hist = NoHist
  /\ disk = NoDisk
  /\ net = 0
  /\ scheduler = AutoRefreshScheduler_default

(* No tick and no console run is under way *)
Idle == agent.pc # "handle" /\ console.pc = "idle"

(* The clock advances *)
Advance ==
  /\ Idle
  /\ now + MsPerMinute <= MaxMinutes * MsPerMinute
  /\ now' = now + MsPerMinute
  /\ last' = Quiet("advance")
  /\ UNCHANGED <<cfg, state, fw, agent, console, manual_lock, engine, emitted, hist, disk, net, scheduler>>

(* The operator switches killswitch.enabled in config.toml while no process *)
(* holds a copy of it; the other settings are those the behaviour began with *)
EditConfig ==
  /\ agent.pc = "down"
  /\ console.pc = "idle"
  /\ cfg' = [cfg EXCEPT !.ks_enabled = ~@]
  /\ last' = Quiet("edit_config")
  /\ UNCHANGED <<now, state, fw, agent, console, manual_lock, engine, emitted, hist, disk, net, scheduler>>

(* History: enable_manual by the operator sets the lock; a step of the     *)
(* operator or a start of the agent that leaves the switch off revokes it. *)
OperatorLock(st2) == manual_lock /\ st2.enabled

(* service::run_service_inner / lib::run_console without a command:        *)
(* reconcile_on_startup, then Agent::run; an error of the reconcile ends   *)
(* the process.                                                            *)
AgentStart(dry, f) ==
  /\ agent.pc = "down"
  /\ console.pc = "idle"
  /\ \E o \in {reconcile_on_startup(cfg, state, fw, dry, f, now)} :
     /\ state' = o.state
     /\ fw' = o.fw
     /\ agent' = IF o.ok THEN [pc |-> "loop", dry |-> dry] ELSE AgentDown
     /\ last' = Step("agent_start", dry, o)
     /\ manual_lock' = OperatorLock(o.state)
  /\ UNCHANGED <<now, cfg, console, engine, emitted, hist, disk, net, scheduler>>

(* The stop signal wins over the next tick, or the process is killed *)
AgentExit ==
  /\ agent.pc # "down"
  /\ console.pc = "idle"
  /\ agent' = AgentDown
  /\ last' = Quiet("agent_exit")
  /\ UNCHANGED <<now, cfg, state, fw, console, manual_lock, engine, emitted, hist, disk, net, scheduler>>

(* Agent::run, the head of a tick: poll_failsafe (its result is dropped),  *)
(* then collect_once and Engine::process; some says whether they gave an   *)
(* incident.                                                               *)
AgentTick(f, some) ==
  /\ agent.pc = "loop"
  /\ console.pc = "idle"
  /\ \E o \in {poll_failsafe(state, fw, agent.dry, f, now)} :
     /\ state' = o.state
     /\ fw' = o.fw
     /\ last' = Step("tick", agent.dry,
                     [o EXCEPT !.ok = TRUE,
                               !.calls = << <<"poll_failsafe", Res(o.ok)>> >> \o @
                                         \o << <<"collect_once", "ok">> >>])
  /\ agent' = IF some THEN [agent EXCEPT !.pc = "handle"] ELSE agent
  /\ UNCHANGED <<now, cfg, console, manual_lock, engine, emitted, hist, disk, net, scheduler>>

(* Agent::run, the body of a tick: handle_incident on the next incident;   *)
(* more says whether the tick has a further incident.                      *)
AgentHandle(f, incident_id, findings, more) ==
  /\ agent.pc = "handle"
  /\ \E h \in {handle_incident(agent_config(cfg), state, fw, agent.dry, f, now,
                              incident_id, findings)} :
     /\ state' = h.out.state
     /\ fw' = h.out.fw
     /\ last' = [Step("handle_incident", agent.dry, h.out) EXCEPT
                   !.id = Some(incident_id), !.severity = h.severity,
                   !.actions = h.actions, !.stored = h.stored]
     /\ agent' = IF ~h.out.ok THEN AgentDown
                  ELSE IF more THEN agent ELSE [agent EXCEPT !.pc = "loop"]
  /\ UNCHANGED <<now, cfg, console, manual_lock, engine, emitted, hist, disk, net, scheduler>>

(* lib::run_console with a command: reconcile_on_startup first *)
ConsoleStart(dry, f) ==
  /\ Idle
  /\ \E o \in {reconcile_on_startup(cfg, state, fw, dry, f, now)} :
     /\ state' = o.state
     /\ fw' = o.fw
     /\ console' = IF o.ok THEN [pc |-> "command", dry |-> dry] ELSE ConsoleIdle
     /\ last' = Step("console_start", dry, o)
     /\ manual_lock' = OperatorLock(o.state)
  /\ UNCHANGED <<now, cfg, agent, engine, emitted, hist, disk, net, scheduler>>

(* console::run_killswitch *)
Commands == {"on", "off", "status", "keep_locked_true", "keep_locked_false"}

run_killswitch(c, st, rules, dry, f, t, cmd) ==
  IF ~c.ks_enabled THEN Outcome(st, rules, TRUE, <<>>)
  ELSE
    CASE cmd = "on" ->
           LET r == enable_manual(st, rules, dry, f, t) IN
           [r EXCEPT !.calls = << <<"enable_manual", Res(r.ok)>> >> \o @]
      [] cmd = "off" -> disable_with_reason(st, rules, dry, f, "manual_cli", None)
      [] cmd = "keep_locked_true" ->
           LET r == set_keep_locked(st, rules, dry, f, TRUE) IN
           [r EXCEPT !.calls = << <<"set_keep_locked", Res(r.ok)>> >> \o @]
      [] cmd = "keep_locked_false" ->
           LET r == set_keep_locked(st, rules, dry, f, FALSE) IN
           [r EXCEPT !.calls = << <<"set_keep_locked", Res(r.ok)>> >> \o @]
      [] OTHER -> Outcome(st, rules, TRUE, <<>>)

ConsoleCommand(cmd, f) ==
  /\ console.pc = "command"
  /\ \E o \in {run_killswitch(cfg, state, fw, console.dry, f, now, cmd)} :
     /\ state' = o.state
     /\ fw' = o.fw
     /\ last' = Step(cmd, console.dry, o)
     /\ manual_lock' =
          IF cmd = "on" /\ cfg.ks_enabled /\ ~console.dry /\ o.ok THEN TRUE
          ELSE OperatorLock(o.state)
  /\ console' = ConsoleIdle
  /\ UNCHANGED <<now, cfg, agent, engine, emitted, hist, disk, net, scheduler>>

Next ==
  \/ Advance
  \/ EditConfig
  \/ \E dry \in BOOLEAN, f \in Faults : AgentStart(dry, f)
  \/ AgentExit
  \/ \E f \in Faults, some \in BOOLEAN : AgentTick(f, some)
  \/ \E f \in Faults, id \in IncidentIds, findings \in FindingLists, more \in BOOLEAN :
       AgentHandle(f, id, findings, more)
  \/ \E dry \in BOOLEAN, f \in Faults : ConsoleStart(dry, f)
  \/ \E cmd \in Commands, f \in Faults : ConsoleCommand(cmd, f)

Spec == Init /\ [][Next]_vars

---------------------------------------------------------------------------
(* The nominal environment: no call fails and the agent is not a dry run.  *)
(* A console run ends.  The agent is scheduled independently of the        *)
(* console, a stopped agent is started again, and a tick handles finitely  *)
(* many incidents: strong fairness, because a console run, which the model *)
(* schedules as a unit, disables the agent's step for its duration.        *)

LiveStart == AgentStart(FALSE, "none")
LiveTick == \E some \in BOOLEAN : AgentTick("none", some)
LiveHandle(more) ==
  \E id \in IncidentIds, findings \in FindingLists : AgentHandle("none", id, findings, more)
LiveCommand == \E cmd \in Commands : ConsoleCommand(cmd, "none")

LiveNext ==
  \/ Advance
  \/ EditConfig
  \/ LiveStart
  \/ AgentExit
  \/ LiveTick
  \/ \E more \in BOOLEAN : LiveHandle(more)
  \/ \E dry \in BOOLEAN : ConsoleStart(dry, "none")
  \/ LiveCommand

LiveSpec ==
  /\ Init
  /\ [][LiveNext]_vars
  /\ WF_vars(LiveCommand)
  /\ SF_vars(LiveStart)
  /\ SF_vars(LiveTick)
  /\ SF_vars(LiveHandle(FALSE))

---------------------------------------------------------------------------
(* The firewall actuator on its own: enable_rules and disable_rules called *)
(* in any order on any rule set, under any condition of the backends.      *)

FwFaults == Faults \cup {"item_foreign"}

FwStep(op, f, r) ==
  [op |-> op, f |-> f, ok |-> r.ok, err |-> r.err, before |-> fw, prev |-> last.op]

FwInit ==
  /\ now = 0
  /\ cfg \in {c \in Configs : c.mode = "Strict" /\ c.ks_enabled /\ c.auto_trigger
                              /\ c.failsafe_minutes = 0}
  /\ state = DefaultState
  /\ fw \in [out : RuleSlots, inb : RuleSlots]
  /\ agent = AgentDown
  /\ console = ConsoleIdle
  /\ last = Quiet("init")
  /\ manual_lock = FALSE
  /\ engine = EngineNew
  /\ emitted = <<>>
  /\ hist = NoHist
  /\ disk = NoDisk
  /\ net = 0
  /\ scheduler = AutoRefreshScheduler_default

FwEnable(f) ==
  /\ \E r \in {enable_rules(fw, f)} :
     /\ fw' = r.fw
     /\ last' = FwStep("enable_rules", f, r)
  /\ UNCHANGED <<now, cfg, state, agent, console, manual_lock, engine, emitted, hist, disk, net, scheduler>>

FwDisable(f) ==
  /\ \E r \in {disable_rules(fw, f)} :
     /\ fw' = r.fw
     /\ last' = FwStep("disable_rules", f, r)
  /\ UNCHANGED <<now, cfg, state, agent, console, manual_lock, engine, emitted, hist, disk, net, scheduler>>

FwNext ==
  \/ \E f \in FwFaults : FwEnable(f)
  \/ \E f \in FwFaults : FwDisable(f)

FwSpec == FwInit /\ [][FwNext]_vars

---------------------------------------------------------------------------
(* The rules engine on its own: Engine::process on one event at a time,    *)
(* handle_incident on every incident it gives, as in the body of a tick of *)
(* Agent::run.  Events arrive in any order, with any timestamps.           *)

Evil == <<"C:", "Temp", "evil.exe">>
Browser == <<"C:", "Program Files", "Google", "Chrome", "Application", "CHROME.EXE">>

UserData == <<"C:", "Users", "User", "AppData", "Local", "Google", "Chrome", "User Data">>
LoginData == UserData \o <<"Default", "Login Data">>
History == UserData \o <<"Default", "History">>
BackupLoginData == UserData \o <<"Backup", "Login Data">>
CookiesSqlite == firefox_profiles_root \o <<"p.default", "cookies.sqlite">>

WindowMs == WindowSeconds * MsPerSecond

EngineConfigs ==
  [mode : Modes,
   ks_enabled : {TRUE},
   auto_trigger : {TRUE},
   failsafe_minutes : {MaxFailsafeMinutes},
   correlation_window_seconds : {WindowSeconds},
   allowlist_publishers : {{"Microsoft Windows", "Google LLC", "Mozilla Corporation"}},
   paths_allowlist : {{UserData \o <<"BACKUP">>}},
   chrome_targets : {<<"Login Data", "Cookies", "Local State">>},
   firefox_targets : {<<"logins.json", "key4.db", "cookies.sqlite">>}]

ProcessStarts ==
  [type : {"ProcessStart"}, pid : Pids, image_path : {Evil, Browser},
   signer_publisher : {None, Some("  gOoGlE llC  "), Some("Evil Corp"), Some("   ")}]

FileAccesses ==
  [type : {"FileAccess"}, pid : Pids, image_path : {None, Some(Browser)},
   file_path : {LoginData, History, BackupLoginData, CookiesSqlite},
   ts : {0, WindowMs}]

NetConnects ==
  [type : {"NetConnect"}, pid : Pids, image_path : {None, Some(Browser)},
   dest_host : {None, Some("example.com")},
   ts : {0, WindowMs, WindowMs + 1, 2 * WindowMs + 1}]

Events == ProcessStarts \cup FileAccesses \cup NetConnects

(* History: an event is added to what the engine has processed *)
Remember(h, c, eng, ev) ==
  LET timed == IF ev.type = "ProcessStart" THEN [h EXCEPT !.since_start[ev.pid] = FALSE]
               ELSE [h EXCEPT !.ordered[ev.pid] = @ /\ ev.ts >= h.max_ts[ev.pid],
                              !.max_ts[ev.pid] = IF ev.ts > @ THEN ev.ts ELSE @]
      kept == IF ev.type = "FileAccess"
                 /\ IsSome(classify_protected_target(c, ev.file_path))
              THEN [timed EXCEPT !.accesses = @ \cup
                      {[pid |-> ev.pid, ts |-> ev.ts,
                        browser |-> is_known_browser_image(
                                      proc_info(eng, ev.pid, ev.image_path).image_path),
                        path_allowlisted |-> is_path_allowlisted(c, ev.file_path)]},
                                 !.since_start[ev.pid] =
                                    @ \/ ~is_path_allowlisted(c, ev.file_path)]
              ELSE timed
  IN [kept EXCEPT !.n = @ + 1]

EngineInit ==
  /\ now = 0
  /\ cfg \in EngineConfigs
  /\ state = DefaultState
  /\ fw = NoRules
  /\ agent = [pc |-> "loop", dry |-> FALSE]
  /\ console = ConsoleIdle
  /\ last = Quiet("init")
  /\ manual_lock = FALSE
  /\ engine = EngineNew
  /\ emitted = <<>>
  /\ hist = NoHist
  /\ disk = NoDisk
  /\ net = 0
  /\ scheduler = AutoRefreshScheduler_default

(* Agent::run: engine.process on the events collected *)
EngineProcess(ev) ==
  /\ emitted = <<>>
  /\ hist.n < MaxEvents
  /\ \E r \in {process(agent_config(cfg), engine, <<ev>>)} :
     /\ engine' = r.engine
     /\ emitted' = r.incidents
     /\ last' = [op |-> "process", event |-> ev,
                 proc |-> IF ev.type = "ProcessStart"
                          THEN [image_path |-> ev.image_path,
                                signer_publisher |-> ev.signer_publisher]
                          ELSE proc_info(engine, ev.pid, ev.image_path),
                 incidents |-> r.incidents]
  /\ hist' = Remember(hist, agent_config(cfg), engine, ev)
  /\ UNCHANGED <<now, cfg, state, fw, agent, console, manual_lock, disk, net, scheduler>>

(* Agent::run: handle_incident on the next incident of the batch *)
EngineHandle(incident_id) ==
  /\ emitted # <<>>
  /\ \E h \in {handle_incident(agent_config(cfg), state, fw, agent.dry, "none", now,
                              incident_id, severities(Head(emitted).findings))} :
     /\ state' = h.out.state
     /\ fw' = h.out.fw
     /\ last' = [Step("handle_incident", agent.dry, h.out) EXCEPT
                   !.id = Some(incident_id), !.severity = h.severity,
                   !.actions = h.actions, !.stored = h.stored]
                 @@ [findings |-> Head(emitted).findings]
  /\ emitted' = Tail(emitted)
  /\ UNCHANGED <<now, cfg, agent, console, manual_lock, engine, hist, disk, net, scheduler>>

EngineNext ==
  \/ \E ev \in Events : EngineProcess(ev)
  \/ \E id \in IncidentIds : EngineHandle(id)

EngineSpec == EngineInit /\ [][EngineNext]_vars

---------------------------------------------------------------------------
(* The enumeration rule: one process, not a browser and of no allowlisted  *)
(* publisher, reads files under the Chrome user-data root; its events come *)
(* in the order of their timestamps, which are read from the clock.        *)

EnumStamps == <<0, ENUM_WINDOW_MS, ENUM_WINDOW_MS + 1>>

RECURSIVE Total(_, _)
Total(count, stamps) ==
  IF stamps = {} THEN 0
  ELSE LET t == CHOOSE x \in stamps : TRUE
       IN count[t] + Total(count, stamps \ {t})
EnumFiles == {LoginData, History}

EnumStampSet == {EnumStamps[i] : i \in DOMAIN EnumStamps}
NoAccesses == [t \in EnumStampSet |-> 0]

(* History: how many accesses under a protected root bore each timestamp,  *)
(* those that classify to a protected target apart from the others         *)
EnumInit ==
  /\ now = EnumStamps[1]
  /\ cfg \in {c \in EngineConfigs : c.mode = "Strict"}
  /\ state = DefaultState
  /\ fw = NoRules
  /\ agent = [pc |-> "loop", dry |-> FALSE]
  /\ console = ConsoleIdle
  /\ last = Quiet("init")
  /\ manual_lock = FALSE
  /\ engine = EngineNew
  /\ emitted = <<>>
  /\ hist = [targets |-> NoAccesses, others |-> NoAccesses]
  /\ disk = NoDisk
  /\ net = 0
  /\ scheduler = AutoRefreshScheduler_default

EnumAdvance ==
  /\ \E i \in 1 .. Len(EnumStamps) - 1 : now = EnumStamps[i] /\ now' = EnumStamps[i + 1]
  /\ last' = Quiet("advance")
  /\ UNCHANGED <<cfg, state, fw, agent, console, manual_lock, engine, emitted, hist, disk, net, scheduler>>

EnumAccess(pid, file_path) ==
  /\ IF IsSome(classify_protected_target(cfg, file_path))
       THEN Total(hist.targets, EnumStampSet) < MaxAccesses
       ELSE Total(hist.others, EnumStampSet) < MaxOthers
  /\ \E ev \in {[type |-> "FileAccess", pid |-> pid, image_path |-> None,
                 file_path |-> file_path, ts |-> now]} :
     \E r \in {process(agent_config(cfg), engine, <<ev>>)} :
       /\ engine' = r.engine
       /\ emitted' = r.incidents
       /\ last' = [op |-> "process", event |-> ev,
                   proc |-> proc_info(engine, ev.pid, ev.image_path),
                   incidents |-> r.incidents]
       /\ hist' = IF IsSome(classify_protected_target(cfg, file_path))
                     THEN [hist EXCEPT !.targets[ev.ts] = @ + 1]
                     ELSE [hist EXCEPT !.others[ev.ts] = @ + 1]
  /\ UNCHANGED <<now, cfg, state, fw, agent, console, manual_lock, disk, net, scheduler>>

EnumNext ==
  \/ EnumAdvance
  \/ \E file_path \in EnumFiles : EnumAccess(1, file_path)

EnumSpec == EnumInit /\ [][EnumNext]_vars

---------------------------------------------------------------------------
(* The console process with and without --dry-run: lib::run_console from   *)
(* the loading of the configuration to the end of the command, and the     *)
(* loops it may stay in (Agent::run, the wait of --simulate red).  One     *)
(* process runs at a time.                                                 *)

DryFaults == {"none"}

(* Config::default *)
Config_default ==
  [mode |-> "Learning", ks_enabled |-> TRUE, auto_trigger |-> TRUE,
   failsafe_minutes |-> default_failsafe_minutes, auto_refresh |-> FALSE]

DryConfigs ==
  [mode : {"Strict"}, ks_enabled : {TRUE}, auto_trigger : {TRUE},
   failsafe_minutes : {MaxFailsafeMinutes}, auto_refresh : BOOLEAN]

(* The arguments after --console [--dry-run] *)
Arguments ==
  {<<"killswitch", cmd>> : cmd \in Commands}
    \cup {<<"license", "status">>, <<"license", "activate">>, <<"license", "deactivate">>}
    \cup {<<"license", "install", bytes>> :
            bytes \in {"valid", "expired", "malformed", "unsigned"}}
    \cup {<<"feed", "status">>, <<"feed", "auto-refresh">>}
    \cup {<<"feed", "import", bytes>> : bytes \in {"good", "bad"}}
    \cup {<<"feed", "verify", bytes>> : bytes \in {"good", "bad"}}
    \cup {<<"feed", "refresh-now", fetched>> : fetched \in {"good", "bad", "error"}}
    \cup {<<"incidents", "list">>}
    \cup {<<"simulate", "red">>}
    \cup {<<>>}

(* Uuid::new_v4 of the incident of --simulate red *)
SimulatedId == "uuid_a"

Ended(st, rules, d, n, ok, next) ==
  [state |-> st, fw |-> rules, disk |-> d, net |-> n, ok |-> ok, next |-> next]

(* console::run_console_command; next tells what the process does after it *)
run_console_command(c, st, rules, d, n, dry, f, t, args) ==
  IF args = <<>> THEN Ended(st, rules, d, n, TRUE, "loop")
  ELSE IF args[1] = "killswitch"
  THEN LET k == run_killswitch(c, st, rules, dry, f, t, args[2])
       IN Ended(k.state, k.fw, d, n, k.ok, "down")
  ELSE IF args[1] = "incidents" THEN Ended(st, rules, d, n, TRUE, "down")
  ELSE IF args[1] = "simulate"
  THEN LET h == handle_incident(c, st, rules, dry, f, t, SimulatedId, <<"Yellow", "Red">>)
       IN Ended(h.out.state, h.out.fw,
                IF h.stored THEN [d EXCEPT !.incidents = @ \cup {SimulatedId}] ELSE d,
                n, TRUE, "wait")
  ELSE IF args[1] = "license"
  THEN CASE args[2] = "status" -> Ended(st, rules, license_status(d, t).disk, n, TRUE, "down")
         [] args[2] = "install" ->
              LET r == install_license(d, args[3], t)
              IN Ended(st, rules, r.disk, n, r.ok, "down")
         [] args[2] = "activate" ->
              LET r == activate(d, t) IN Ended(st, rules, r.disk, n, r.ok, "down")
         [] OTHER ->
              LET r == deactivate(d, t) IN Ended(st, rules, r.disk, n, r.ok, "down")
  ELSE CASE args[2] = "status" -> Ended(st, rules, bundle_status_at(d, t).disk, n, TRUE, "down")
         [] args[2] = "import" ->
              LET r == import(d, Pair(args[3]), t, "none")
              IN Ended(st, rules, r.disk, n, r.ok, "down")
         [] args[2] = "verify" ->
              Ended(st, rules, d, n, IsSome(verify_bundle_bytes(Pair(args[3]))), "down")
         [] args[2] = "refresh-now" ->
              LET r == refresh_now(c, d, n, t, args[3], "none")
              IN Ended(st, rules, r.disk, r.net, TRUE, "down")
         [] OTHER ->
              Ended(st, rules, auto_refresh_eligibility(c, d, t).disk, n, TRUE, "down")

(* lib::run_console up to the agent's loop *)
run_console(c, st, rules, d, n, dry, f, t, args) ==
  LET loaded == load_or_create_default(d)
      o == reconcile_on_startup(c, st, rules, dry, f, t)
  IN IF ~o.ok THEN Ended(o.state, o.fw, loaded, n, FALSE, "down")
     ELSE run_console_command(c, o.state, o.fw,
                              feed_status(license_status(loaded, t).disk, t),
                              n, dry, f, t, args)

(* The record of a step: whether the process that took it runs with       *)
(* --dry-run                                                               *)
DryStep(dry) == [dry |-> dry]

DryInit ==
  /\ now = 0
  /\ \E config \in {"absent", "partial", "full"} :
       /\ disk = [NoDisk EXCEPT !.config = config]
       /\ IF config = "absent" THEN cfg = Config_default ELSE cfg \in DryConfigs
  /\ state = DefaultState
  /\ fw = NoRules
  /\ agent = AgentDown
  /\ console = ConsoleIdle
  /\ last = DryStep(FALSE)
  /\ manual_lock = FALSE
  /\ engine = EngineNew
  /\ emitted = <<>>
  /\ hist = NoHist
  /\ net = 0
  /\ scheduler = AutoRefreshScheduler_default

DryAdvance ==
  /\ now + MsPerMinute <= MaxDryMinutes * MsPerMinute
  /\ now' = now + MsPerMinute
  /\ last' = DryStep(FALSE)
  /\ UNCHANGED <<cfg, state, fw, agent, console, manual_lock, engine, emitted, hist, disk, net, scheduler>>

RunConsole(dry, f, args) ==
  /\ agent.pc = "down"
  /\ \E r \in {run_console(cfg, state, fw, disk, net, dry, f, now, args)} :
       /\ r.net <= MaxRequests
       /\ state' = r.state
       /\ fw' = r.fw
       /\ disk' = r.disk
       /\ net' = r.net
       /\ agent' = IF r.next = "down" THEN AgentDown ELSE [pc |-> r.next, dry |-> dry]
       /\ last' = DryStep(dry)
  /\ UNCHANGED <<now, cfg, console, manual_lock, engine, emitted, hist, scheduler>>

(* Agent::run, one turn of the loop: poll_failsafe, collect_once, which    *)
(* saves the bookmark when it has read events, and handle_incident on the  *)
(* incident the events give, if any                                        *)
DryTick(f, events, incident) ==
  /\ agent.pc = "loop"
  /\ events => disk.bookmark < MaxRecords
  /\ \E o \in {poll_failsafe(state, fw, agent.dry, f, now)} :
     \E read \in {IF events /\ ~agent.dry
                  THEN [disk EXCEPT !.bookmark = @ + 1] ELSE disk} :
       IF events /\ IsSome(incident)
       THEN \E h \in {handle_incident(agent_config(cfg), o.state, o.fw, agent.dry, f, now,
                                      Get(incident).id, Get(incident).findings)} :
              /\ state' = h.out.state
              /\ fw' = h.out.fw
              /\ disk' = IF h.stored
                         THEN [read EXCEPT !.incidents = @ \cup {Get(incident).id}]
                         ELSE read
       ELSE /\ state' = o.state
            /\ fw' = o.fw
            /\ disk' = read
  /\ last' = DryStep(agent.dry)
  /\ UNCHANGED <<now, cfg, agent, console, manual_lock, engine, emitted, hist, net, scheduler>>

(* console::run_simulate, one turn of its wait: poll_failsafe, then status; *)
(* it ends when the switch is off and the rules are gone                    *)
DryWait(f) ==
  /\ agent.pc = "wait"
  /\ \E o \in {poll_failsafe(state, fw, agent.dry, f, now)} :
       /\ state' = o.state
       /\ fw' = o.fw
       /\ agent' = IF ~o.state.enabled
                      /\ ~(rules_status(o.fw, f).outbound_ok /\ rules_status(o.fw, f).inbound_ok)
                    THEN AgentDown ELSE agent
  /\ last' = DryStep(agent.dry)
  /\ UNCHANGED <<now, cfg, console, manual_lock, engine, emitted, hist, disk, net, scheduler>>

(* Ctrl+C *)
DryStop ==
  /\ agent.pc \in {"loop", "wait"}
  /\ agent' = AgentDown
  /\ last' = DryStep(agent.dry)
  /\ UNCHANGED <<now, cfg, state, fw, console, manual_lock, engine, emitted, hist, disk, net, scheduler>>

DryNext ==
  \/ DryAdvance
  \/ \E dry \in BOOLEAN, f \in DryFaults, args \in Arguments : RunConsole(dry, f, args)
  \/ \E f \in DryFaults, events \in BOOLEAN,
        incident \in {None} \cup {Some([id |-> id, findings |-> findings]) :
                                    id \in {"uuid_b"}, findings \in FindingLists} :
       DryTick(f, events, incident)
  \/ \E f \in DryFaults : DryWait(f)
  \/ DryStop

DryRunSpec == DryInit /\ [][DryNext]_vars

(***************************************************************************)
(* The license operations on the files of the base directory.  The         *)
(* directory starts with any license file and any activation, as files     *)
(* copied by hand or left by an earlier installation would leave it.       *)
(*   hist.fresh      the run started from an empty directory               *)
(*   hist.installed  an install_license has succeeded                      *)
(*   hist.activated  activate was called after the last successful install *)
(*   hist.trip       how far the calls install, activate, status,          *)
(*                   deactivate, status have followed one another          *)
(***************************************************************************)
LicenseIds == {"lic_a", "lic_b"}

Activations ==
  {None} \cup {Some([activated_at |-> 0, license_id |-> l, last_verified_at |-> 0]) :
                 l \in LicenseIds}

LicenseStep(op, ok, st, reason) == [op |-> op, ok |-> ok, state |-> st, reason |-> reason]

LicenseInit ==
  /\ now = 0
  /\ cfg = Config_default
  /\ state = DefaultState
  /\ fw = NoRules
  /\ agent = AgentDown
  /\ console = ConsoleIdle
  /\ last = LicenseStep("init", TRUE, "", None)
  /\ manual_lock = FALSE
  /\ engine = EngineNew
  /\ emitted = <<>>
  /\ \E bytes \in {"absent"} \cup LicenseFiles, act \in Activations :
       /\ disk = [NoDisk EXCEPT !.license = bytes, !.activation = act,
                                !.device_id = IsSome(act)]
       /\ hist = [fresh |-> bytes = "absent" /\ act = None, installed |-> FALSE,
                  activated |-> FALSE, trip |-> 0]
  /\ net = 0
  /\ scheduler = AutoRefreshScheduler_default

LicenseAdvance ==
  /\ now + MsPerMinute <= MaxLicenseMinutes * MsPerMinute
  /\ now' = now + MsPerMinute
  /\ last' = LicenseStep("advance", TRUE, "", None)
  /\ UNCHANGED <<cfg, state, fw, agent, console, manual_lock, engine, emitted, hist, disk, net, scheduler>>

InstallLicense(bytes) ==
  /\ \E r \in {install_license(disk, bytes, now)} :
       /\ disk' = r.disk
       /\ last' = LicenseStep("install", r.ok, r.state, None)
       /\ hist' = IF r.ok
                  THEN [hist EXCEPT !.installed = TRUE, !.activated = FALSE, !.trip = 1]
                  ELSE [hist EXCEPT !.trip = 0]
  /\ UNCHANGED <<now, cfg, state, fw, agent, console, manual_lock, engine, emitted, net, scheduler>>

Activate ==
  /\ \E r \in {activate(disk, now)} :
       /\ disk' = r.disk
       /\ last' = LicenseStep("activate", r.ok, r.state, None)
       /\ hist' = [hist EXCEPT !.activated = TRUE,
                               !.trip = IF hist.trip = 1 /\ r.ok THEN 2 ELSE 0]
  /\ UNCHANGED <<now, cfg, state, fw, agent, console, manual_lock, engine, emitted, net, scheduler>>

Deactivate ==
  /\ \E r \in {deactivate(disk, now)} :
       /\ disk' = r.disk
       /\ last' = LicenseStep("deactivate", r.ok, "", None)
       /\ hist' = [hist EXCEPT !.trip = IF hist.trip = 3 THEN 4 ELSE 0]
  /\ UNCHANGED <<now, cfg, state, fw, agent, console, manual_lock, engine, emitted, net, scheduler>>

Status ==
  /\ \E r \in {license_status(disk, now)} :
       /\ disk' = r.disk
       /\ last' = LicenseStep("status", TRUE, r.state, r.reason)
       /\ hist' = [hist EXCEPT !.trip = CASE hist.trip = 2 -> 3
                                          [] hist.trip = 4 -> 5
                                          [] OTHER -> 0]
  /\ UNCHANGED <<now, cfg, state, fw, agent, console, manual_lock, engine, emitted, net, scheduler>>

LicenseNext ==
  \/ LicenseAdvance
  \/ \E bytes \in LicenseFiles : InstallLicense(bytes)
  \/ Activate
  \/ Deactivate
  \/ Status

LicenseSpec == LicenseInit /\ [][LicenseNext]_vars

(***************************************************************************)
(* The threat feed on the files of the base directory: load_current,       *)
(* import, refresh_now and the scheduler's tick.  The directory starts     *)
(* with any bundle and last-known-good pair, verifying or not, and with no *)
(* license or an activated one.  A step records the feed's files, the      *)
(* requests and next_due as refresh_now or tick found them.                *)
(*   hist.imported  the bundle of the last import, if it succeeded and no  *)
(*                  refresh has run since                                  *)
(*   hist.replaced  the bundle.json that import found                      *)
(***************************************************************************)
FeedStepMs == MsPerMinute \div 2

IntervalMinutes == {1, WordMax}

FeedConfigs ==
  {[auto_refresh |-> FALSE, refresh_interval_minutes |-> 1]}
    \cup [auto_refresh : {TRUE}, refresh_interval_minutes : IntervalMinutes]

Pairs ==
  {NoPair} \cup {Pair(b) : b \in BundleFiles} \cup {[bundle |-> "newer", sig |-> "good"]}

ActivatedAt0(bytes) ==
  [NoDisk EXCEPT !.license = bytes, !.device_id = TRUE,
                 !.activation = Some([activated_at |-> 0,
                                      license_id |-> Payload(bytes).license_id,
                                      last_verified_at |-> 0])]

FeedFiles(d) ==
  [feed_bundle |-> d.feed_bundle, feed_last_good |-> d.feed_last_good,
   feed_meta |-> d.feed_meta]

FeedStep(op, d, n, sch, r) ==
  [op |-> op, before |-> FeedFiles(d), net |-> n, due |-> sch.next_due_unix_ms] @@ r

FeedResult ==
  [ok |-> TRUE, eligible |-> FALSE, attempted |-> FALSE, success |-> FALSE,
   bundle |-> None, refreshes |-> 0, interrupted |-> NoPair]

FeedInit ==
  /\ now = 0
  /\ cfg \in FeedConfigs
  /\ state = DefaultState
  /\ fw = NoRules
  /\ agent = AgentDown
  /\ console = ConsoleIdle
  /\ manual_lock = FALSE
  /\ engine = EngineNew
  /\ emitted = <<>>
  /\ hist = [imported |-> None, replaced |-> "absent"]
  /\ \E lic \in {NoDisk, ActivatedAt0("valid"), ActivatedAt0("expiring")},
        installed \in Pairs \ {[bundle |-> "newer", sig |-> "good"]},
        last_good \in {NoPair, Pair("good"), Pair("bad")} :
       disk = [lic EXCEPT !.feed_bundle = installed, !.feed_last_good = last_good]
  /\ net = 0
  /\ scheduler = AutoRefreshScheduler_default
  /\ last = FeedStep("init", NoDisk, 0, scheduler, FeedResult)

FeedAdvance ==
  /\ now + FeedStepMs <= MaxFeedSteps * FeedStepMs
  /\ now' = now + FeedStepMs
  /\ last' = FeedStep("advance", NoDisk, 0, AutoRefreshScheduler_default, FeedResult)
  /\ UNCHANGED <<cfg, state, fw, agent, console, manual_lock, engine, emitted, hist, disk, net, scheduler>>

LoadCurrent ==
  /\ \E r \in {load_current_at(disk, now)} :
       /\ disk' = r.disk
       /\ last' = FeedStep("load_current", NoDisk, 0, AutoRefreshScheduler_default,
                           [FeedResult EXCEPT !.bundle = r.bundle])
  /\ UNCHANGED <<now, cfg, state, fw, agent, console, manual_lock, engine, emitted, hist, net, scheduler>>

Import(src, f) ==
  /\ \E r \in {import(disk, src, now, f)} :
       /\ disk' = r.disk
       /\ last' = FeedStep("import", NoDisk, 0, AutoRefreshScheduler_default,
                           [FeedResult EXCEPT
                              !.ok = r.ok,
                              !.interrupted =
                                 IF IsSome(verify_bundle_bytes(src)) /\ ~r.ok
                                 THEN src ELSE NoPair])
       /\ hist' = IF r.ok
                  THEN [imported |-> Some(src.bundle), replaced |-> disk.feed_bundle.bundle]
                  ELSE [imported |-> None, replaced |-> "absent"]
  /\ UNCHANGED <<now, cfg, state, fw, agent, console, manual_lock, engine, emitted, net, scheduler>>

RefreshNow(fetched, f) ==
  /\ net < MaxFetches
  /\ \E r \in {refresh_now(cfg, disk, net, now, fetched, f)} :
       /\ disk' = r.disk
       /\ net' = r.net
       /\ last' = FeedStep("refresh_now", disk, net, scheduler,
                           [FeedResult EXCEPT !.attempted = r.attempted,
                                              !.success = r.success])
  /\ hist' = [imported |-> None, replaced |-> "absent"]
  /\ UNCHANGED <<now, cfg, state, fw, agent, console, manual_lock, engine, emitted, scheduler>>

SchedulerTick(fetched, f) ==
  /\ net < MaxFetches
  /\ \E r \in {tick(scheduler, cfg, disk, net, now, fetched, f)} :
       /\ scheduler' = r.scheduler
       /\ disk' = r.disk
       /\ net' = r.net
       /\ last' = FeedStep("tick", disk, net, scheduler,
                           [FeedResult EXCEPT
                              !.eligible = auto_refresh_eligibility(cfg, disk, now).eligible,
                              !.refreshes = r.refreshes])
  /\ hist' = [imported |-> None, replaced |-> "absent"]
  /\ UNCHANGED <<now, cfg, state, fw, agent, console, manual_lock, engine, emitted>>

(* The faults that can befall a call: those of the install, if the files   *)
(* handed over verify and so reach it                                      *)
FaultsOf(src) == IF IsSome(verify_bundle_bytes(src)) THEN InstallFaults ELSE {"none"}

FeedNext ==
  \/ FeedAdvance
  \/ LoadCurrent
  \/ \E src \in Pairs : \E f \in FaultsOf(src) : Import(src, f)
  \/ \E fetched \in Fetches : \E f \in FaultsOf(Pair(fetched)) : RefreshNow(fetched, f)
  \/ \E fetched \in Fetches : \E f \in FaultsOf(Pair(fetched)) : SchedulerTick(fetched, f)

FeedSpec == FeedInit /\ [][FeedNext]_vars

(***************************************************************************)
(* The agent's loop on a machine where the threat feed's auto-refresh is   *)
(* eligible: auto_refresh is on and an activated, unexpiring license is    *)
(* installed.  The steps are those of Agent::run.                          *)
(***************************************************************************)
LoopConfigs ==
  {c @@ [auto_refresh |-> TRUE, refresh_interval_minutes |-> 1] : c \in Configs}

LoopInit ==
  /\ now = 0
  /\ cfg \in LoopConfigs
  /\ state = DefaultState
  /\ fw = NoRules
  /\ agent = AgentDown
  /\ console = ConsoleIdle
  /\ last = Quiet("init")
  /\ manual_lock = FALSE
  /\ engine = EngineNew
  /\ emitted = <<>>
  /\ hist = NoHist
  /\ disk = ActivatedAt0("valid")
  /\ net = 0
  /\ scheduler = AutoRefreshScheduler_default

LoopNext ==
  \/ Advance
  \/ \E dry \in BOOLEAN, f \in Faults : AgentStart(dry, f)
  \/ AgentExit
  \/ \E f \in Faults, some \in BOOLEAN : AgentTick(f, some)
  \/ \E f \in Faults, id \in IncidentIds, findings \in FindingLists, more \in BOOLEAN :
       AgentHandle(f, id, findings, more)

LoopSpec == LoopInit /\ [][LoopNext]_vars

---------------------------------------------------------------------------
(* Replacing a persisted file.  A destination is known with its two        *)
(* siblings: the temporary file the new content is written to and, for the *)
(* license files, the .bak file.  Each holds "absent", a content, or       *)
(* "partial" for a temporary file whose write did not finish.  A fault     *)
(* names the file-system call that fails:                                  *)
(*   write_err    fs::write of the temporary file                          *)
(*   rename_err   fs::rename of the temporary file onto the destination    *)
(*   backup_err   fs::rename of the destination onto the .bak file         *)
(*   restore_err  rename_err, and the fs::rename of the .bak file back     *)
(*   cleanup_err  fs::remove_file of the .bak file after the replacement   *)

NoFile == [dst |-> "absent", tmp |-> "absent", bak |-> "absent"]

WriteFaults == {"none", "write_err", "rename_err"}
ReplaceFaults == WriteFaults \cup {"backup_err", "restore_err", "cleanup_err"}

Written(file, ok, steps) == [file |-> file, ok |-> ok, steps |-> steps]

(* kill_switch::write_atomic; incident_store::write_atomic is the same code *)
write_atomic(file, contents, f) ==
  IF f = "write_err"
  THEN Written([file EXCEPT !.tmp = "partial"], FALSE, <<"write_tmp">>)
  ELSE IF f = "rename_err"
  THEN Written([file EXCEPT !.tmp = contents], FALSE, <<"write_tmp", "rename_tmp_dst">>)
  ELSE Written([file EXCEPT !.tmp = "absent", !.dst = contents], TRUE,
               <<"write_tmp", "rename_tmp_dst">>)

(* threat_feed::atomic_write_file *)
atomic_write_file(file, bytes, f) ==
  IF f = "write_err"
  THEN Written([file EXCEPT !.tmp = "partial"], FALSE, <<"write_tmp">>)
  ELSE IF f = "rename_err"
  THEN Written([file EXCEPT !.tmp = bytes], FALSE, <<"write_tmp", "rename_tmp_dst">>)
  ELSE Written([file EXCEPT !.tmp = "absent", !.dst = bytes], TRUE,
               <<"write_tmp", "rename_tmp_dst">>)

(* Seeded fault: replace_file that leaves the backup where it is on a failure *)
replace_file_without_restore(file, f) ==
  LET cleared == [file EXCEPT !.bak = "absent"]
      s1 == IF file.bak # "absent" THEN <<"remove_bak">> ELSE <<>>
      stashed == IF cleared.dst # "absent"
                 THEN [cleared EXCEPT !.bak = cleared.dst, !.dst = "absent"]
                 ELSE cleared
      s2 == s1 \o (IF cleared.dst # "absent" THEN <<"rename_dst_bak">> ELSE <<>>)
  IN
  IF cleared.dst # "absent" /\ f = "backup_err" THEN Written(cleared, FALSE, s2)
  ELSE IF f \in {"rename_err", "restore_err"}
  THEN Written(stashed, FALSE, s2 \o <<"rename_tmp_dst">>)
  ELSE Written([stashed EXCEPT !.dst = stashed.tmp, !.tmp = "absent",
                               !.bak = IF f = "cleanup_err" THEN @ ELSE "absent"],
               TRUE,
               s2 \o <<"rename_tmp_dst">>
                  \o (IF stashed.bak # "absent" THEN <<"remove_bak">> ELSE <<>>))

(* license::replace_file: the staging file is file.tmp *)
replace_file(file, f) ==
  LET cleared == [file EXCEPT !.bak = "absent"]
      s1 == IF file.bak # "absent" THEN <<"remove_bak">> ELSE <<>>
      stashed == IF cleared.dst # "absent"
                 THEN [cleared EXCEPT !.bak = cleared.dst, !.dst = "absent"]
                 ELSE cleared
      s2 == s1 \o (IF cleared.dst # "absent" THEN <<"rename_dst_bak">> ELSE <<>>)
      restored == IF stashed.bak # "absent" /\ f = "rename_err"
                  THEN [stashed EXCEPT !.dst = stashed.bak, !.bak = "absent"]
                  ELSE stashed
  IN
  IF cleared.dst # "absent" /\ f = "backup_err" THEN Written(cleared, FALSE, s2)
  ELSE IF f \in {"rename_err", "restore_err"}
  THEN Written(restored, FALSE,
               s2 \o <<"rename_tmp_dst">>
                  \o (IF stashed.bak # "absent" THEN <<"rename_bak_dst">> ELSE <<>>))
  ELSE Written([stashed EXCEPT !.dst = stashed.tmp, !.tmp = "absent",
                               !.bak = IF f = "cleanup_err" THEN @ ELSE "absent"],
               TRUE,
               s2 \o <<"rename_tmp_dst">>
                  \o (IF stashed.bak # "absent" THEN <<"remove_bak">> ELSE <<>>))

(* license::atomic_write_file *)
license_atomic_write_file(file, bytes, f) ==
  IF f = "write_err"
  THEN Written([file EXCEPT !.tmp = "partial"], FALSE, <<"write_tmp">>)
  ELSE LET r == replace_file([file EXCEPT !.tmp = bytes], f)
       IN [r EXCEPT !.steps = <<"write_tmp">> \o @]

(* The files: the kill switch's state.toml, an incident's {id}.toml (a new *)
(* id for every incident), license.json, the threat feed's bundle.json     *)
Persisted == {"killswitch_state", "incident", "license", "threat_feed"}
Contents == {"v1", "v2"}

ReplaceInit ==
  /\ now = 0
  /\ cfg \in {c \in Configs : c.mode = "Strict" /\ c.ks_enabled /\ c.auto_trigger}
  /\ state = DefaultState
  /\ fw = NoRules
  /\ agent = AgentDown
  /\ console = ConsoleIdle
  /\ last = [op |-> "init"]
  /\ manual_lock = FALSE
  /\ engine = EngineNew
  /\ emitted = <<>>
  /\ hist = 0
  /\ disk = [m \in Persisted |-> NoFile]
  /\ net = 0
  /\ scheduler = AutoRefreshScheduler_default

(* History: a file has been written *)
Wrote(m, contents, f, r) ==
  /\ disk' = [disk EXCEPT ![m] = r.file]
  /\ last' = [op |-> "write", file |-> m, contents |-> contents, fault |-> f,
              ok |-> r.ok, steps |-> r.steps, before |-> disk[m]]
  /\ hist' = hist + 1
  /\ UNCHANGED <<now, cfg, state, fw, agent, console, manual_lock, engine, emitted, net, scheduler>>

(* kill_switch::save_state writes state.toml *)
SaveStateFile(contents, f) ==
  /\ hist < MaxWrites
  /\ \E r \in {write_atomic(disk["killswitch_state"], contents, f)} :
       Wrote("killswitch_state", contents, f, r)

(* incident_store::store_incident writes {id}.toml *)
StoreIncidentFile(contents, f) ==
  /\ hist < MaxWrites
  /\ disk["incident"].dst = "absent"
  /\ \E r \in {write_atomic(disk["incident"], contents, f)} :
       Wrote("incident", contents, f, r)

(* license::install_license writes license.json *)
InstallLicenseFile(bytes, f) ==
  /\ hist < MaxWrites
  /\ \E r \in {license_atomic_write_file(disk["license"], bytes, f)} :
       Wrote("license", bytes, f, r)

(* threat_feed::install_verified_bundle writes bundle.json *)
InstallBundleFile(bytes, f) ==
  /\ hist < MaxWrites
  /\ \E r \in {atomic_write_file(disk["threat_feed"], bytes, f)} :
       Wrote("threat_feed", bytes, f, r)

ReplaceNext ==
  \/ \E contents \in Contents, f \in WriteFaults : SaveStateFile(contents, f)
  \/ \E contents \in Contents, f \in WriteFaults : StoreIncidentFile(contents, f)
  \/ \E bytes \in Contents, f \in ReplaceFaults : InstallLicenseFile(bytes, f)
  \/ \E bytes \in Contents, f \in WriteFaults : InstallBundleFile(bytes, f)

ReplaceSpec == ReplaceInit /\ [][ReplaceNext]_vars

---------------------------------------------------------------------------
(* Vocabulary of the properties *)

Called(calls, name) == \E i \in 1 .. Len(calls) : calls[i][1] = name
CalledWith(calls, name, result) == \E i \in 1 .. Len(calls) : calls[i] = <<name, result>>
Before(calls, a, b) ==
  \E i, j \in 1 .. Len(calls) : i < j /\ calls[i][1] = a /\ calls[j][1] = b
Taken(actions, a) == \E i \in 1 .. Len(actions) : actions[i] = a

(* The block is in place in automatic mode, unlocked, and its deadline has passed *)
AutoExpired ==
  /\ state.enabled
  /\ ~state.keep_locked
  /\ state.enabled_mode = Some("AutoRedOnly")
  /\ IsSome(state.failsafe_deadline_unix_ms)
  /\ now >= Get(state.failsafe_deadline_unix_ms)

(* Both rules are gone and the persisted state is off *)
Released == ~state.enabled /\ fw.out # "ours" /\ fw.inb # "ours"

(* The operator has taken the block over: locked it or made it manual *)
OperatorHolds ==
  state.enabled /\ (state.keep_locked \/ state.enabled_mode = Some("Manual"))

FailsafeReasons == {"failsafe_expired", "failsafe_startup"}
ReconcileOps == {"agent_start", "console_start"}
TickOps == {"tick", "handle_incident"}

---------------------------------------------------------------------------
(* C1: failsafe liveness.  Once an automatically engaged, unlocked block   *)
(* has passed its deadline, it is eventually released (both rules removed, *)
(* enabled = false), by poll_failsafe on a tick or by reconcile_on_startup *)
(* at the next start, unless the operator takes the block over first.      *)
C1_FailsafeLiveness == AutoExpired ~> (Released \/ OperatorHolds)

C1_Witness ==
  /\ last.reason \in FailsafeReasons
  /\ ~last.dry
  /\ CalledWith(last.calls, "disable_with_reason", "ok")
  /\ Released

(* C2: on every tick that finds should_auto_restore true, poll_failsafe    *)
(* calls disable_with_reason("failsafe_expired", last_incident_id), and    *)
(* does so before the tick's events are collected.                         *)
C2_FailsafeBeforeCollect ==
  [][(last'.op = "tick" /\ AutoExpired) =>
       /\ Head(last'.calls)[1] = "poll_failsafe"
       /\ Before(last'.calls, "poll_failsafe", "disable_with_reason")
       /\ Before(last'.calls, "disable_with_reason", "collect_once")
       /\ last'.reason = "failsafe_expired"
       /\ last'.incident = state.last_incident_id]_vars

C2_Witness ==
  /\ last.op = "tick"
  /\ last.reason = "failsafe_expired"
  /\ IsSome(last.incident)
  /\ ~last.dry
  /\ ~state.enabled

(* C3: after the operator's enable_manual, no agent tick (poll_failsafe,   *)
(* event processing, incident response) turns the kill switch off; only an *)
(* operator's disable does.                                                *)
C3_ManualNeverTimesOut ==
  [][(manual_lock /\ state.enabled /\ last'.op \in TickOps) => state'.enabled]_vars

(* C4, as stated: in Learning mode handling an incident never calls        *)
(* enable_auto and leaves state and firewall alone, and a Red incident's   *)
(* actions_taken has killswitch_skipped_learning_mode and not              *)
(* killswitch_enable_auto.                                                 *)
C4_LearningWithholds_AsStated ==
  [][(last'.op = "handle_incident" /\ agent_config(cfg).mode = "Learning") =>
       /\ ~Called(last'.calls, "enable_auto")
       /\ state' = state
       /\ fw' = fw
       /\ last'.severity = "Red" =>
            /\ Taken(last'.actions, "killswitch_skipped_learning_mode")
            /\ ~Taken(last'.actions, "killswitch_enable_auto")]_vars

(* C4: in Learning mode handling an incident never calls enable_auto and   *)
(* leaves state and firewall alone; a Red incident's actions_taken never   *)
(* has killswitch_enable_auto, and has killswitch_skipped_learning_mode    *)
(* when killswitch.enabled is true.                                        *)
C4_LearningWithholds ==
  [][(last'.op = "handle_incident" /\ agent_config(cfg).mode = "Learning") =>
       /\ ~Called(last'.calls, "enable_auto")
       /\ state' = state
       /\ fw' = fw
       /\ last'.severity = "Red" =>
            /\ ~Taken(last'.actions, "killswitch_enable_auto")
            /\ cfg.ks_enabled => Taken(last'.actions, "killswitch_skipped_learning_mode")]_vars

C4_Witness ==
  /\ last.op = "handle_incident"
  /\ last.severity = "Red"
  /\ ~last.dry
  /\ cfg.mode = "Learning"
  /\ cfg.ks_enabled
  /\ cfg.auto_trigger
  /\ Taken(last.actions, "killswitch_skipped_learning_mode")

(* C5: with killswitch.enabled = false in the config, no step (startup     *)
(* reconcile, incident response, the operator's killswitch on, a tick)     *)
(* calls the firewall backend's enable_rules.                              *)
C5_NoEnableWhenDisabled ==
  ~cfg.ks_enabled => ~Called(last.calls, "enable_rules")

C5_Witness ==
  /\ ~cfg.ks_enabled
  /\ cfg.mode = "Strict"
  /\ cfg.auto_trigger
  /\ last.op = "handle_incident"
  /\ last.severity = "Red"
  /\ ~last.dry
  /\ state.enabled

(* C6: in every persisted state, enabled_mode = AutoRedOnly implies that   *)
(* the failsafe deadline is set and strictly greater than enabled_at.      *)
C6_DeadlineAfterEnabledAt ==
  state.enabled_mode = Some("AutoRedOnly") =>
    /\ IsSome(state.failsafe_deadline_unix_ms)
    /\ IsSome(state.enabled_at_unix_ms)
    /\ Get(state.failsafe_deadline_unix_ms) > Get(state.enabled_at_unix_ms)

(* C7: in every persisted state, enabled implies that enabled_mode and     *)
(* enabled_at are set, and enabled_mode = Manual implies that the failsafe *)
(* deadline is absent.                                                     *)
C7_EnabledStateWellFormed ==
  /\ state.enabled => IsSome(state.enabled_mode) /\ IsSome(state.enabled_at_unix_ms)
  /\ state.enabled_mode = Some("Manual") => state.failsafe_deadline_unix_ms = None

C7_Witness ==
  /\ last.op = "on"
  /\ CalledWith(last.calls, "save_state", "ok")
  /\ state.enabled
  /\ state.enabled_mode = Some("Manual")
  /\ manual_lock
  /\ now > 0

(* C8: while the persisted keep_locked is true, neither poll_failsafe nor  *)
(* reconcile_on_startup performs a failsafe disable, however far the clock *)
(* is past the deadline.                                                   *)
C8_KeepLockedInhibits ==
  [][(state.keep_locked /\ last'.op \in ReconcileOps \cup {"tick"}) =>
       last'.reason \notin FailsafeReasons]_vars

C8_Witness ==
  /\ last.op \in ReconcileOps \cup {"tick"}
  /\ state.keep_locked
  /\ state.enabled
  /\ state.enabled_mode = Some("AutoRedOnly")
  /\ now > Get(state.failsafe_deadline_unix_ms)

(* C9: enable_manual, enable_auto and disable_with_reason write the state  *)
(* file only after the firewall rule change has succeeded: a step in which *)
(* one of them changes the persisted state leaves the rules as the new     *)
(* state says, both in place after an enable, both removed after a         *)
(* disable.                                                                *)
C9_StateWrittenAfterRuleChange ==
  [][(/\ state' # state
      /\ \/ Called(last'.calls, "enable_manual")
         \/ Called(last'.calls, "enable_auto")
         \/ Called(last'.calls, "disable_with_reason")) =>
       IF state'.enabled THEN fw'.out = "ours" /\ fw'.inb = "ours"
       ELSE fw'.out # "ours" /\ fw'.inb # "ours"]_vars

(* C10: with killswitch.enabled = true, reconcile_on_startup takes the     *)
(* action of the reconciliation table, for every persisted state and rule  *)
(* set: (off, no rules) nothing; (off, rules) cleanup; (on, auto-restore   *)
(* due) disable_with_reason("failsafe_startup", last_incident_id); (on,    *)
(* rules present) nothing; (on, rules missing) re-assert the rules.        *)
RulesPresent == fw.out = "ours" /\ fw.inb = "ours"
Nothing(calls) ==
  ~Called(calls, "disable_with_reason") /\ ~Called(calls, "enable_rules")

(* A start, not a dry run, whose query of the rules is answered truly *)
TrueStart ==
  \E f \in {"none", "com_unavailable", "denied", "save_err"} :
    AgentStart(FALSE, f) \/ ConsoleStart(FALSE, f)

C10_ReconcileTable ==
  [][(last'.op \in ReconcileOps /\ cfg.ks_enabled /\ TrueStart) =>
       IF ~state.enabled
       THEN IF RulesPresent
            THEN /\ Called(last'.calls, "disable_with_reason")
                 /\ last'.reason = "startup_cleanup"
                 /\ ~Called(last'.calls, "enable_rules")
            ELSE Nothing(last'.calls) /\ state' = state /\ fw' = fw
       ELSE IF should_auto_restore(state, now)
            THEN /\ Called(last'.calls, "disable_with_reason")
                 /\ last'.reason = "failsafe_startup"
                 /\ last'.incident = state.last_incident_id
                 /\ ~Called(last'.calls, "enable_rules")
            ELSE IF RulesPresent
                 THEN Nothing(last'.calls) /\ state' = state /\ fw' = fw
                 ELSE /\ Called(last'.calls, "enable_rules")
                      /\ ~Called(last'.calls, "disable_with_reason")
                      /\ state' = state]_vars

C10_Witness ==
  /\ last.op \in ReconcileOps
  /\ ~last.dry
  /\ cfg.ks_enabled
  /\ CalledWith(last.calls, "rules_status", "ok")
  /\ CalledWith(last.calls, "enable_rules", "ok")
  /\ state.enabled
  /\ RulesPresent

(* C11: with killswitch.enabled = false in the config, a start that is not *)
(* a dry run and whose firewall and disk calls succeed leaves, when        *)
(* reconcile_on_startup has returned, no kill-switch rule in the firewall  *)
(* and the persisted state off with mode, enabled_at, deadline and         *)
(* incident cleared, whatever the state and the rules were before.         *)
NominalStart ==
  \E f \in {"none", "com_unavailable"} : AgentStart(FALSE, f) \/ ConsoleStart(FALSE, f)

C11_ConfigDisabledCleanup ==
  [][(last'.op \in ReconcileOps /\ ~cfg.ks_enabled /\ NominalStart) =>
       /\ last'.ok
       /\ last'.reason = "config_disabled_cleanup"
       /\ fw'.out # "ours" /\ fw'.inb # "ours"
       /\ state' = [DefaultState EXCEPT !.keep_locked = state.keep_locked]]_vars

C11_Witness ==
  /\ last.op \in ReconcileOps
  /\ ~last.dry
  /\ ~cfg.ks_enabled
  /\ last.reason = "config_disabled_cleanup"
  /\ CalledWith(last.calls, "disable_rules", "ok")
  /\ CalledWith(last.calls, "save_state", "ok")
  /\ state.keep_locked
  /\ Released

(* C12, as stated: across enable_rules and disable_rules calls a rule with *)
(* a kill-switch name and another group is never modified or deleted, and  *)
(* every operation that comes upon it (reads it through the COM rule       *)
(* collection) returns the 'rule name collision' error.                    *)
FwOps == {"enable_rules", "disable_rules"}
ComWorks(f) == ~ComUnavailable(f) /\ f # "com_err"

(* enable_rules over COM finds a foreign rule under a name *)
EnableMeetsForeign(rules, f) ==
  /\ ComWorks(f)
  /\ \/ Item(rules.out, f) = "foreign"
     \/ /\ ensure_rule(rules.out, f, FALSE, f = "denied").ok
        /\ f # "in_err"
        /\ Item(rules.inb, f) = "foreign"

(* disable_rules over COM finds a foreign rule under a name *)
DisableMeetsForeign(rules, f) ==
  /\ ComWorks(f)
  /\ \/ Item(rules.out, f) = "foreign"
     \/ f # "in_err" /\ Item(rules.inb, f) = "foreign"

ForeignKept ==
  /\ HasForeign(fw'.out) = HasForeign(fw.out)
  /\ HasForeign(fw'.inb) = HasForeign(fw.inb)

C12_ForeignRuleCollision_AsStated ==
  [][last'.op \in FwOps =>
       /\ ForeignKept
       /\ (last'.op = "enable_rules" /\ EnableMeetsForeign(fw, last'.f)) =>
            last'.err = Collision
       /\ (last'.op = "disable_rules" /\ DisableMeetsForeign(fw, last'.f)) =>
            last'.err = Collision]_vars

(* C12: across enable_rules and disable_rules calls a rule with a          *)
(* kill-switch name and another group is never modified or deleted.        *)
(* enable_rules returns the 'rule name collision' error exactly when it    *)
(* finds such a rule through the COM rule collection, and then leaves that *)
(* name as it is; disable_rules skips the rule and reports no collision.   *)
C12_ForeignRuleCollision ==
  [][last'.op \in FwOps =>
       /\ ForeignKept
       /\ last'.err = Collision <=>
            (last'.op = "enable_rules" /\ EnableMeetsForeign(fw, last'.f))
       /\ last'.err = Collision => ~last'.ok]_vars

C12_Witness ==
  /\ last.op = "enable_rules"
  /\ last.err = Collision
  /\ ~last.ok
  /\ last.before = [out |-> "absent", inb |-> "foreign"]
  /\ fw = [out |-> "ours", inb |-> "foreign"]

(* C13: enable_rules is idempotent.  A call that returns Ok leaves exactly *)
(* one rule of our group under each name, with the properties the code     *)
(* writes; an enable_rules that follows an enable_rules changes no rule    *)
(* when the first returned Ok or when both run under the same condition of *)
(* the backends, and then it returns what the first returned.              *)
Normal(rule) == rule \in {"ours", "both"}

IsMaxOf(s, findings) ==
  IF findings = <<>> THEN s = "Green"
  ELSE /\ \E i \in DOMAIN findings : findings[i].severity = s
       /\ \A i \in DOMAIN findings : Rank(findings[i].severity) <= Rank(s)

Emits(incidents, rule_id) ==
  \E i \in DOMAIN incidents :
    \E j \in DOMAIN incidents[i].findings : incidents[i].findings[j].rule_id = rule_id

Processed(type) == last'.op = "process" /\ last'.event.type = type

(* C14: every incident Engine::process emits, and every incident when      *)
(* handle_incident has run on it, has the severity that is the maximum of  *)
(* the severities of its findings (Green < Yellow < Red).                  *)
C14_SeverityIsMax ==
  /\ \A i \in DOMAIN emitted : IsMaxOf(emitted[i].severity, emitted[i].findings)
  /\ last.op = "handle_incident" => IsMaxOf(last.severity, last.findings)

C14_Witness ==
  /\ last.op = "handle_incident"
  /\ last.severity = "Red"
  /\ Len(last.findings) = 2
  /\ emitted = <<>>

(* The accesses of the history that the claim correlates with a connect:   *)
(* same pid, classified to a protected target, connect no later than the   *)
(* window after the access.                                                *)
Correlated(b) ==
  {a \in hist.accesses : a.pid = b.pid /\ b.ts - a.ts <= WindowMs}

(* C15, as stated: processing a NetConnect b emits R009 exactly when some  *)
(* earlier FileAccess a of the pid, classified to a protected target and   *)
(* with t(b) - t(a) <= window * 1000, was made under an image that is not  *)
(* a known browser and on a path that is not allowlisted.                  *)
C15_Correlation_AsStated ==
  [][Processed("NetConnect") =>
       (Emits(emitted', "R009") <=>
          \E a \in Correlated(last'.event) : ~a.browser /\ ~a.path_allowlisted)]_vars

(* What the engine does instead, for every stream: processing a           *)
(* NetConnect b of pid p emits R009, with severity Red,                    *)
(* exactly when p's deque of recorded accesses (classified to a protected  *)
(* target, path not allowlisted; entries older than the window dropped     *)
(* from its front) is not empty, its latest entry a has t(b) - t(a), cut   *)
(* off at 0, <= window * 1000, and the image the engine resolves for p at  *)
(* b is not a known browser.  When p's events came in the order of their   *)
(* timestamps and p resolved to the same image at each access, that is:    *)
(* exactly when some access a of the claim was made under an image that is *)
(* not a known browser and on a path that is not allowlisted.              *)
SameImage(b, image_path) ==
  \A a \in hist.accesses : a.pid = b.pid => a.browser = is_known_browser_image(image_path)

R009_Decision ==
  [][Processed("NetConnect") =>
       LET b == last'.event
           q == engine'.sensitive[b.pid]
       IN
       /\ Emits(emitted', "R009") <=>
            /\ q # <<>>
            /\ saturating_sub(b.ts, q[Len(q)].ts) <= WindowMs
            /\ ~is_known_browser_image(last'.proc.image_path)
       /\ Emits(emitted', "R009") => emitted'[1].severity = "Red"
       /\ (hist'.ordered[b.pid] /\ SameImage(b, last'.proc.image_path)) =>
            (Emits(emitted', "R009") <=>
               \E a \in Correlated(b) : ~a.browser /\ ~a.path_allowlisted)]_vars

(* C16: the window includes its boundary.  When the pid has one recorded   *)
(* FileAccess, at time t, no event of the pid was stamped later than the   *)
(* NetConnect, and the pid's image is not a known browser, a NetConnect at *)
(* exactly t + window * 1000 emits R009; a NetConnect at t + window * 1000 *)
(* + 1 or later emits none.                                                *)
C16_WindowBoundary ==
  [][Processed("NetConnect") =>
       \A a \in hist.accesses :
         (/\ a.pid = last'.event.pid
          /\ \A a2 \in hist.accesses : a2.pid = a.pid => a2 = a
          /\ ~a.path_allowlisted
          /\ ~is_known_browser_image(last'.proc.image_path)) =>
           /\ (last'.event.ts = a.ts + WindowMs /\ hist'.ordered[a.pid]) =>
                Emits(emitted', "R009")
           /\ last'.event.ts >= a.ts + WindowMs + 1 => ~Emits(emitted', "R009")]_vars

C16_Witness ==
  /\ last.op = "process"
  /\ last.event.type = "NetConnect"
  /\ last.event.ts = WindowMs
  /\ hist.accesses = {[pid |-> last.event.pid, ts |-> 0, browser |-> FALSE,
                       path_allowlisted |-> FALSE]}
  /\ hist.n = 2
  /\ Emits(emitted, "R009")

C19_AllowlistedPublisherSilent ==
  [][(/\ Processed("FileAccess")
      /\ IsSome(last'.proc.signer_publisher)
      /\ \E a \in cfg.allowlist_publishers :
           TrimLower(a) = TrimLower(Get(last'.proc.signer_publisher))) =>
       emitted' = <<>>]_vars

C19_Witness ==
  /\ last.op = "process"
  /\ last.event.type = "FileAccess"
  /\ last.event.file_path = LoginData
  /\ last.proc.image_path = Evil
  /\ last.proc.signer_publisher = Some("  gOoGlE llC  ")
  /\ emitted = <<>>

(* The accesses counted in count within the 10 seconds up to t *)
Trailing(count, t) ==
  Total(count, {x \in DOMAIN count : saturating_sub(t, x) <= ENUM_WINDOW_MS})

C20_DryRunFrame_AsStated ==
  [][last'.dry => (fw' = fw /\ state' = state /\ disk' = disk /\ net' = net)]_vars

(* What --dry-run does keep, in every run: the firewall rules, the         *)
(* kill-switch state, the incident records and the bookmark.               *)
DryRunGuarded ==
  [][last'.dry =>
       /\ fw' = fw
       /\ state' = state
       /\ disk'.incidents = disk.incidents
       /\ disk'.bookmark = disk.bookmark]_vars

(***************************************************************************)
(* Vocabulary of the license properties                                    *)
(***************************************************************************)
Derived == license_status(disk, now)

Installed == validate_payload_and_signature(disk.license, now)

Unexpired == Installed.ok /\ Installed.state = "ProActive"

(* C21, as stated: once install_license has succeeded, the state derived   *)
(* from the directory is not ProActive as long as activate has not been    *)
(* called after that install.  Taken over the runs that start from an      *)
(* empty directory, so that every file is one the operations wrote.        *)
C21_InstallNeverActivates_AsStated ==
  (hist.fresh /\ hist.installed /\ ~hist.activated) => Derived.state # "ProActive"

(* What does hold: an install whose license_id no activation on disk       *)
(* carries is not ProActive until activate is called.                      *)
InstallOfAnotherLicense ==
  (/\ hist.installed /\ ~hist.activated
   /\ Installed.ok
   /\ ~(IsSome(disk.activation) /\ Get(disk.activation).license_id = Installed.license_id))
    => Derived.state # "ProActive"

(* C22: for a signed, schema-valid license that is unexpired when status   *)
(* is asked, install, activate, status reports ProActive, and a following  *)
(* deactivate, status reports ProInvalid with the reason of the missing    *)
(* activation.                                                             *)
C22_LicenseRoundTrip ==
  /\ (hist.trip = 3 /\ last.op = "status" /\ Unexpired) => last.state = "ProActive"
  /\ (hist.trip = 5 /\ last.op = "status" /\ Unexpired) =>
       (last.state = "ProInvalid" /\ last.reason = Some(NotActivatedReason))

C22_Witness ==
  /\ hist.trip = 5
  /\ Unexpired
  /\ last.op = "status"
  /\ last.state = "ProInvalid"
  /\ ~IsSome(disk.activation)

(* The table of the license states, by the artifacts on disk *)
Matching ==
  /\ IsSome(disk.activation)
  /\ disk.license # "absent"
  /\ Get(disk.activation).license_id = Payload(disk.license).license_id

Expired ==
  /\ IsSome(Payload(disk.license).expires_at)
  /\ Get(Payload(disk.license).expires_at) <= now_unix_s(now)

StatusTable ==
  IF disk.license = "absent" THEN "Community"
  ELSE IF ~Payload(disk.license).signed \/ ~Payload(disk.license).schema THEN "ProInvalid"
  ELSE IF Expired THEN "ProExpired"
  ELSE IF ~Matching THEN "ProInvalid"
  ELSE "ProActive"

(* C23, as stated: whatever the artifacts on disk, status reports the      *)
(* state of the table; ProActive is never reported for a payload that      *)
(* fails the schema validation.                                            *)
C23_StatusDerivation_AsStated ==
  last.op = "status" =>
    /\ last.state = StatusTable
    /\ (disk.license # "absent" /\ ~Payload(disk.license).schema) =>
         last.state # "ProActive"

(* What does hold: the table, for every payload that passes the schema *)
StatusOfValidSchema ==
  (last.op = "status" /\ (disk.license = "absent" \/ Payload(disk.license).schema))
    => last.state = StatusTable

(***************************************************************************)
(* Vocabulary of the threat-feed properties                                *)
(***************************************************************************)
Verifies(pair) ==
  /\ pair.bundle \in {"good", "newer"}
  /\ pair.sig = pair.bundle

FeedDir == FeedFiles(disk)

(* C24: load_current returns the installed bundle when the installed pair  *)
(* verifies, else the last-known-good bundle when that pair verifies, else *)
(* nothing; what it returns has passed signature and schema verification.  *)
C24_LoadCurrent ==
  last.op = "load_current" =>
    /\ last.bundle = IF Verifies(disk.feed_bundle) THEN Some(disk.feed_bundle.bundle)
                     ELSE IF Verifies(disk.feed_last_good)
                     THEN Some(disk.feed_last_good.bundle)
                     ELSE None
    /\ IsSome(last.bundle) =>
         /\ Bundle(Get(last.bundle)).signed
         /\ Bundle(Get(last.bundle)).rules_version # 0

C24_Witness ==
  /\ last.op = "load_current"
  /\ disk.feed_bundle.bundle = "noschema"
  /\ disk.feed_last_good = Pair("good")
  /\ last.bundle = Some("good")

(* C25: after a successful import the next load_current returns a bundle   *)
(* with the bundle_id and the rules_version of the imported bundle,        *)
(* whatever was installed before.                                          *)
C25_ImportThenLoad ==
  (last.op = "load_current" /\ IsSome(hist.imported)) =>
    /\ IsSome(last.bundle)
    /\ Bundle(Get(last.bundle)).bundle_id = Bundle(Get(hist.imported)).bundle_id
    /\ Bundle(Get(last.bundle)).rules_version = Bundle(Get(hist.imported)).rules_version

C25_Witness ==
  /\ last.op = "load_current"
  /\ hist.imported = Some("good")
  /\ hist.replaced = "newer"
  /\ last.bundle = Some("good")

Diagnosed ==
  /\ IsSome(disk.feed_meta)
  /\ Get(disk.feed_meta).last_refresh_result
       \in {Some("failed"), Some("failed: verification"), Some("failed: install")}
  /\ Get(disk.feed_meta).last_refresh_attempt_at = Some(now_unix_s(now))

(* C26, as stated: a refresh_now that fails leaves bundle.json and         *)
(* bundle.sig exactly as they were, and if it was attempted the metadata   *)
(* records a diagnostic.                                                   *)
C26_FailedRefreshFrame_AsStated ==
  (last.op = "refresh_now" /\ ~last.success) =>
    /\ disk.feed_bundle = last.before.feed_bundle
    /\ last.attempted => Diagnosed

(* What does hold: every attempted refresh that fails records its          *)
(* diagnostic, and one that fails before the install leaves the files.     *)
FailedRefreshDiagnosed ==
  (last.op = "refresh_now" /\ ~last.success) =>
    /\ last.attempted => Diagnosed
    /\ (~last.attempted
        \/ Get(disk.feed_meta).last_refresh_result # Some("failed: install")) =>
         /\ disk.feed_bundle = last.before.feed_bundle
         /\ disk.feed_last_good = last.before.feed_last_good

Interval == saturating_mul(cfg.refresh_interval_minutes, MsPerMinute)

(* C27: a tick of the scheduler, by eligibility and next_due: ineligible,  *)
(* next_due is cleared and nothing is refreshed; eligible with next_due    *)
(* unset, next_due becomes now + interval and nothing is refreshed;        *)
(* eligible with now >= next_due, refresh_now is called once and next_due  *)
(* becomes now + interval whatever the refresh did; eligible with          *)
(* now < next_due, neither the scheduler nor the feed changes.  The sum    *)
(* and the interval saturate at the width of the word.                     *)
C27_SchedulerTick ==
  last.op = "tick" =>
    /\ ~last.eligible =>
         /\ scheduler.next_due_unix_ms = None
         /\ last.refreshes = 0
    /\ (last.eligible /\ last.due = None) =>
         /\ scheduler.next_due_unix_ms = Some(saturating_add(now, Interval))
         /\ last.refreshes = 0
    /\ (last.eligible /\ IsSome(last.due) /\ now >= Get(last.due)) =>
         /\ scheduler.next_due_unix_ms = Some(saturating_add(now, Interval))
         /\ last.refreshes = 1
    /\ (last.eligible /\ IsSome(last.due) /\ now < Get(last.due)) =>
         /\ scheduler.next_due_unix_ms = last.due
         /\ last.refreshes = 0
    /\ last.refreshes = 0 => (net = last.net /\ FeedDir = last.before)

C27_Witness ==
  /\ last.op = "tick"
  /\ last.eligible
  /\ IsSome(last.due)
  /\ now >= Get(last.due)
  /\ last.refreshes = 1
  /\ net = last.net + 1
  /\ Get(disk.feed_meta).last_refresh_result = Some("failed")
  /\ scheduler.next_due_unix_ms = Some(now + MsPerMinute)

(***************************************************************************)
(* Vocabulary of the agent-loop properties                                 *)
(***************************************************************************)
(* A tick has run to its end: its last step is done and the agent is back  *)
(* at the head of the loop                                                 *)
TickDone == last.op \in {"tick", "handle_incident"} /\ agent.pc = "loop"

(* C28, as stated: a tick that the stop signal has not pre-empted polls    *)
(* the failsafe, collects, handles the incidents and then lets the threat  *)
(* feed's scheduler tick, with or without events.  A scheduler that has    *)
(* ticked while auto-refresh is eligible holds a next_due.                 *)
C28_AgentTickOrder_AsStated ==
  (TickDone /\ auto_refresh_eligibility(cfg, disk, now).eligible) =>
    IsSome(scheduler.next_due_unix_ms)

(* What does hold: a tick begins with poll_failsafe and then collects, and *)
(* incidents are handled only after that.                                  *)
TickPollsThenCollects ==
  /\ last.op = "tick" =>
       /\ last.calls[1][1] = "poll_failsafe"
       /\ last.calls[Len(last.calls)][1] = "collect_once"
  /\ agent.pc = "handle" => last.op \in {"tick", "handle_incident"}

(***************************************************************************)
(* Vocabulary of the automatic-enable properties                           *)
(***************************************************************************)
(* enable_auto has run, the firewall's rules were enabled and the state    *)
(* file was written                                                        *)
AutoEnabled ==
  /\ Called(last.calls, "enable_auto")
  /\ CalledWith(last.calls, "enable_rules", "ok")
  /\ CalledWith(last.calls, "save_state", "ok")

(* C29: after an enable_auto(incident_id, minutes) whose firewall enable   *)
(* succeeded and whose state was written, the persisted state has          *)
(* enabled = true, keep_locked = false, enabled_mode = AutoRedOnly,        *)
(* enabled_at = now, failsafe_deadline = enabled_at + minutes * 60000 and  *)
(* last_incident_id = incident_id, whatever the state before was.          *)
C29_EnableAutoState ==
  AutoEnabled =>
    /\ state.enabled
    /\ ~state.keep_locked
    /\ state.enabled_mode = Some("AutoRedOnly")
    /\ state.enabled_at_unix_ms = Some(now)
    /\ state.failsafe_deadline_unix_ms = Some(now + cfg.failsafe_minutes * 60000)
    /\ state.last_incident_id = last.id

C29_Witness ==
  /\ AutoEnabled
  /\ manual_lock
  /\ cfg.failsafe_minutes = 1
  /\ state.enabled_mode = Some("AutoRedOnly")
  /\ ~state.keep_locked
  /\ state.failsafe_deadline_unix_ms = Some(now + 60000)
  /\ now > 0

(* The killswitch_skipped_* entries the response engine can append *)
Skipped(actions) ==
  \/ Taken(actions, "killswitch_skipped_learning_mode")
  \/ Taken(actions, "killswitch_skipped_auto_trigger_disabled")

(* C30, as stated: a Red incident handled while killswitch.enabled is      *)
(* false gets a killswitch_skipped_* entry in actions_taken before it is   *)
(* handed to the store, and enable_auto is not called.                     *)
C30_SkippedWhenDisabled_AsStated ==
  (last.op = "handle_incident" /\ last.severity = "Red" /\ ~cfg.ks_enabled) =>
    /\ Skipped(last.actions)
    /\ ~Called(last.calls, "enable_auto")

(* What does hold: with killswitch.enabled false the incident is handed to *)
(* the store with the two placeholder entries only, and enable_auto is not *)
(* called.                                                                 *)
DisabledRedIsStubbed ==
  (last.op = "handle_incident" /\ last.severity = "Red" /\ ~cfg.ks_enabled) =>
    /\ last.actions = <<"process_kill_skipped_no_pid", "quarantine_skipped_no_path">>
    /\ ~Called(last.calls, "enable_auto")
    /\ ~Called(last.calls, "enable_rules")

(***************************************************************************)
(* Vocabulary of the incident-handling properties                          *)
(***************************************************************************)
(* C31: handle_incident never ends the tick.  It returns Ok and the agent  *)
(* goes on to the next incident or the next tick; when enable_auto has     *)
(* failed the incident carries killswitch_enable_auto_failed and not       *)
(* killswitch_enable_auto; the incident goes to the store with all its     *)
(* entries, and a store that fails changes nothing of this.                *)
C31_HandleIncidentNeverFails ==
  last.op = "handle_incident" =>
    /\ last.ok
    /\ agent.pc \in {"handle", "loop"}
    /\ CalledWith(last.calls, "enable_auto", "err") =>
         /\ last.actions[Len(last.actions)] = "killswitch_enable_auto_failed"
         /\ ~Taken(last.actions, "killswitch_enable_auto")
    /\ (last.severity = "Red") = (Len(last.actions) > 0)

C31_Witness ==
  /\ last.op = "handle_incident"
  /\ CalledWith(last.calls, "enable_auto", "err")
  /\ Taken(last.actions, "killswitch_enable_auto_failed")
  /\ ~last.stored
  /\ ~last.dry
  /\ last.ok
  /\ agent.pc = "handle"

(***************************************************************************)
(* Vocabulary of the per-target file rules                                 *)
(***************************************************************************)
FileRuleIds == {"R001", "R002", "R003", "R004", "R005"}

(* The findings of the file rules among those of the incidents emitted *)
FileRuleFindings(incidents) ==
  {<<i, j>> \in (DOMAIN incidents) \X (1 .. 3) :
     j \in DOMAIN incidents[i].findings
     /\ incidents[i].findings[j].rule_id \in FileRuleIds}

(* A FileAccess has been processed that the engine classified, by a        *)
(* process that is neither a known browser nor of an allowlisted publisher *)
ForeignAccessTo(targets) ==
  /\ last.op = "process"
  /\ last.event.type = "FileAccess"
  /\ ~is_path_allowlisted(agent_config(cfg), last.event.file_path)
  /\ classify_protected_target(agent_config(cfg), last.event.file_path) \in targets
  /\ ~is_known_browser_image(last.proc.image_path)
  /\ ~publisher_allowlisted(agent_config(cfg), last.proc.signer_publisher)

OneFileFinding ==
  /\ Len(emitted) = 1
  /\ Cardinality(FileRuleFindings(emitted)) = 1
  /\ \A f \in FileRuleFindings(emitted) :
       cfg.mode = "Learning" => emitted[f[1]].findings[f[2]].severity = "Yellow"

AllTargets ==
  {Some(t) : t \in {"ChromeLoginData", "ChromeCookies", "ChromeLocalState",
                    "FirefoxLoginsJson", "FirefoxKey4Db", "FirefoxCookiesSqlite"}}

(* C32 as stated: a FileAccess classified to any of the six protected      *)
(* targets, by a process that is neither a known browser nor of an         *)
(* allowlisted publisher, gives one incident with exactly one finding of   *)
(* R001 to R005, Yellow in Learning mode.                                  *)
C32_EveryTargetHasRule_AsStated ==
  ForeignAccessTo(AllTargets) => OneFileFinding

(* C32, what holds: the same for the five targets that have a rule *)
RuledTargetHasFinding ==
  ForeignAccessTo(AllTargets \ {Some("FirefoxCookiesSqlite")}) => OneFileFinding

(* C32, the sixth target: cookies.sqlite never gives a finding of a file rule *)
CookiesSqliteHasNoRule ==
  ForeignAccessTo({Some("FirefoxCookiesSqlite")}) => FileRuleFindings(emitted) = {}

(* a signed, unlisted, non-browser process read cookies.sqlite: no incident *)
CookiesSqliteSilent ==
  /\ ForeignAccessTo({Some("FirefoxCookiesSqlite")})
  /\ IsSome(last.proc.signer_publisher)
  /\ emitted = <<>>
  /\ engine.sensitive[last.event.pid] # <<>>

(***************************************************************************)
(* Vocabulary of the file-replacement properties                           *)
(***************************************************************************)
Did(steps, call) == \E i \in 1 .. Len(steps) : steps[i] = call

(* A write has reached the replacement of a destination that existed *)
Replacing ==
  /\ last.op = "write"
  /\ last.before.dst # "absent"
  /\ Did(last.steps, "rename_tmp_dst") \/ Did(last.steps, "rename_dst_bak")

(* C33 as stated: every persisted file is replaced through a temporary     *)
(* sibling with a .bak rescue.  The destination that exists is stashed as  *)
(* the .bak file before the temporary file is renamed onto it, and a       *)
(* failed replacement leaves the destination with its previous content.    *)
C33_BakRescue_AsStated ==
  Replacing =>
    /\ last.steps[1] = "write_tmp"
    /\ Did(last.steps, "rename_dst_bak")
    /\ ~last.ok => disk[last.file].dst = last.before.dst

(* C33, what holds: every persisted file is written to a temporary sibling *)
(* that is renamed onto the destination, and only the license files are    *)
(* stashed as a .bak file.  A failed write leaves the destination with its *)
(* previous content, except that a license file whose restoration failed   *)
(* too is left absent with its previous content in the .bak file.  A write *)
(* that succeeds leaves the new content, no temporary file and, unless its *)
(* removal failed, no .bak file.                                           *)
C33_ReplaceKeepsPrevious ==
  last.op = "write" =>
    /\ last.steps[1] = "write_tmp"
    /\ Did(last.steps, "rename_dst_bak") =
         (/\ last.file = "license"
          /\ last.before.dst # "absent"
          /\ last.fault # "write_err")
    /\ last.ok =>
         /\ disk[last.file].dst = last.contents
         /\ disk[last.file].tmp = "absent"
         /\ last.fault # "cleanup_err" => disk[last.file].bak = "absent"
    /\ ~last.ok =>
         IF last.fault = "restore_err" /\ last.before.dst # "absent"
         THEN /\ disk[last.file].dst = "absent"
              /\ disk[last.file].bak = last.before.dst
         ELSE disk[last.file].dst = last.before.dst

(* the replacement of a license file failed and the .bak file was renamed back *)
C33_Witness ==
  /\ last.op = "write"
  /\ last.file = "license"
  /\ ~last.ok
  /\ last.before.dst = "v1"
  /\ last.contents = "v2"
  /\ Did(last.steps, "rename_dst_bak")
  /\ Did(last.steps, "rename_bak_dst")
  /\ disk["license"].dst = "v1"
  /\ disk["license"].tmp = "v2"

(* state.toml was replaced with no .bak file at any step *)
ReplacedWithoutBackup ==
  /\ Replacing
  /\ last.file = "killswitch_state"
  /\ last.ok
  /\ last.steps = <<"write_tmp", "rename_tmp_dst">>

(***************************************************************************)
(* Vocabulary of the failsafe-deadline properties                          *)
(***************************************************************************)
AutoBlock(st) ==
  /\ st.enabled
  /\ st.enabled_mode = Some("AutoRedOnly")
  /\ IsSome(st.failsafe_deadline_unix_ms)

(* C34 as stated: while the kill switch stays enabled in AutoRedOnly mode, *)
(* no step moves the persisted failsafe deadline later; a further Red      *)
(* incident does not postpone the automatic release.  The steps looked at  *)
(* are those taken before the release is due, so that no release that was  *)
(* tried and failed is among them.                                         *)
C34_DeadlineNeverPostponed_AsStated ==
  [][(/\ AutoBlock(state) /\ AutoBlock(state')
      /\ now < Get(state.failsafe_deadline_unix_ms)) =>
       Get(state'.failsafe_deadline_unix_ms) <= Get(state.failsafe_deadline_unix_ms)]_vars

(* C34, what holds: the deadline of an automatic block changes only when   *)
(* enable_auto succeeds again, and then to the time of that call plus the  *)
(* configured minutes                                                      *)
DeadlineMovesOnlyOnEnableAuto ==
  [][(/\ AutoBlock(state) /\ AutoBlock(state')
      /\ state'.failsafe_deadline_unix_ms # state.failsafe_deadline_unix_ms) =>
       /\ CalledWith(last'.calls, "enable_auto", "ok")
       /\ state'.failsafe_deadline_unix_ms =
            Some(saturating_add(now, saturating_mul(cfg.failsafe_minutes, MsPerMinute)))
       /\ state'.enabled_at_unix_ms = Some(now)]_vars

(* a second Red incident has been handled while the block of the first was in place *)
DeadlinePostponed ==
  /\ last.op = "handle_incident"
  /\ CalledWith(last.calls, "enable_auto", "ok")
  /\ AutoBlock(state)
  /\ state.enabled_at_unix_ms = Some(now)
  /\ now > 0
  /\ state.last_incident_id = last.id

(***************************************************************************)
(* Vocabulary of the rule-set properties                                   *)
(***************************************************************************)
OursPresent(rules) == InGroup(rules.out) \/ InGroup(rules.inb)

(* C35 as stated: a step in which enable_rules failed leaves the firewall  *)
(* rule set as it was; when no rule of our group was present before and    *)
(* the persisted state says enabled = false, none is present after.        *)
C35_FailedEnableLeavesRules_AsStated ==
  [][CalledWith(last'.calls, "enable_rules", "err") =>
       /\ fw' = fw
       /\ (~OursPresent(fw) /\ ~state'.enabled) => ~OursPresent(fw')]_vars

(* C35, what holds: a failed enable_rules leaves the persisted state as it *)
(* was and never takes a rule away; the rule set changes only by an        *)
(* outbound rule of our group that the call added or reset before the      *)
(* inbound rule failed                                                     *)
FailedEnableKeepsState ==
  [][CalledWith(last'.calls, "enable_rules", "err") =>
       /\ state' = state
       /\ fw'.inb = fw.inb
       /\ fw'.out # fw.out => fw'.out = "ours"]_vars

(* the outbound rule stands alone after a failed enable, the state disabled *)
HalfBlocked ==
  /\ CalledWith(last.calls, "enable_rules", "err")
  /\ ~state.enabled
  /\ fw.out = "ours"
  /\ fw.inb = "absent"

(* a call of the step returned an error *)
Failed(calls) == \E i \in 1 .. Len(calls) : calls[i][2] = "err"

(* C36 as stated: when reconcile_on_startup has returned Ok and the        *)
(* persisted state says enabled = false, neither kill-switch rule of our   *)
(* group is in the firewall.  The starts looked at are those outside a dry *)
(* run in which no call failed, so that no failed cleanup is among them.   *)
C36_ReconcileLeavesNoRule_AsStated ==
  (/\ last.op = "agent_start" /\ last.ok /\ ~last.dry /\ ~Failed(last.calls)
   /\ ~state.enabled) =>
    ~OursPresent(fw)

(* C36, what holds: a start that leaves the state OFF puts no rule of our  *)
(* group into the firewall; the rules it leaves were there before          *)
ReconcileAddsNoRule ==
  [][(last'.op = "agent_start" /\ ~state'.enabled) =>
       /\ InGroup(fw'.out) => InGroup(fw.out)
       /\ InGroup(fw'.inb) => InGroup(fw.inb)]_vars

(* the agent has started beside a lone rule and has left it *)
LoneRuleSurvivesStart ==
  /\ last.op = "agent_start"
  /\ last.ok
  /\ ~last.dry
  /\ last.calls = << <<"rules_status", "ok">> >>
  /\ ~state.enabled
  /\ fw = [out |-> "ours", inb |-> "absent"]
  /\ agent.pc = "loop"

(***************************************************************************)
(* Vocabulary of the correlation properties                                *)
(***************************************************************************)
(* A NetConnect has been processed and R009 emitted for it *)
R009Emitted ==
  /\ last.op = "process"
  /\ last.event.type = "NetConnect"
  /\ Emits(emitted, "R009")

(* The access R009 was correlated with: the latest of the pid's deque *)
CorrelatedAccess ==
  engine.sensitive[last.event.pid][Len(engine.sensitive[last.event.pid])]

(* C37 as stated: R009 is emitted for a NetConnect only when the sensitive *)
(* FileAccess it is correlated with has a timestamp not later than that of *)
(* the NetConnect.                                                         *)
C37_AccessPrecedesConnect_AsStated ==
  R009Emitted => CorrelatedAccess.ts <= last.event.ts

(* C37, what holds: the NetConnect is at most the window later than the    *)
(* access, and may be earlier by any amount                                *)
ConnectWithinWindowAfter ==
  R009Emitted =>
    /\ engine.sensitive[last.event.pid] # <<>>
    /\ saturating_sub(last.event.ts, CorrelatedAccess.ts) <= WindowMs

(* R009 for a connect whose timestamp is before that of the access *)
ConnectBeforeAccess ==
  /\ R009Emitted
  /\ CorrelatedAccess.ts = WindowMs
  /\ last.event.ts = 0

(* C38 as stated: R009 is emitted for a NetConnect of a pid only if the    *)
(* engine recorded a FileAccess of the pid to a protected target after the *)
(* most recent ProcessStart of the pid.                                    *)
C38_NoInheritedHistory_AsStated ==
  R009Emitted => hist.since_start[last.event.pid]

(* C38, what holds: the pid's deque holds an access recorded at some time, *)
(* before or after the ProcessStart events of the pid                      *)
R009NeedsRecordedAccess ==
  R009Emitted =>
    /\ engine.sensitive[last.event.pid] # <<>>
    /\ \E a \in hist.accesses :
         a.pid = last.event.pid /\ a.ts = CorrelatedAccess.ts /\ ~a.path_allowlisted

(* R009 for the first connect of a process started on a pid whose earlier  *)
(* process had read a protected file                                       *)
PidReuseInherits ==
  /\ R009Emitted
  /\ ~hist.since_start[last.event.pid]
  /\ IsSome(engine.procs[last.event.pid])
  /\ hist.n = 3

(***************************************************************************)
(* Vocabulary of the interrupted-install properties                        *)
(***************************************************************************)
(* A process that dies at a step of install_verified_bundle leaves the     *)
(* files as the install that fails at that step leaves them: every write   *)
(* is a rename of a temporary file, and an install that fails writes       *)
(* nothing afterwards.                                                     *)

(* The files hold a valid bundle and its last-known-good copy *)
InstalledWithCopy(d) ==
  /\ IsSome(verify_bundle_bytes(d.feed_bundle))
  /\ d.feed_last_good = d.feed_bundle

(* C39: when an import of files that verify ends at a step of              *)
(* install_verified_bundle, over a valid bundle with its last-known-good   *)
(* copy, load_current then returns the previous bundle or the new one,     *)
(* from a pair of files whose signature is that of the bundle: the         *)
(* previous one as long as bundle.sig has not been replaced.               *)
C39_InterruptedInstall ==
  [][(/\ last'.op = "import"
      /\ last'.interrupted # NoPair
      /\ InstalledWithCopy(disk)) =>
       LET cur == load_current_at(disk', now) IN
       /\ cur.present
       /\ cur.bundle \in {Some(disk.feed_bundle.bundle), Some(last'.interrupted.bundle)}
       /\ Pair(Get(cur.bundle)) \in {disk'.feed_bundle, disk'.feed_last_good}
       /\ disk'.feed_bundle.sig = disk.feed_bundle.sig =>
            cur.bundle = Some(disk.feed_bundle.bundle)]_vars

(* the install ended between bundle.json and bundle.sig: the new bundle    *)
(* lies beside the old signature and load_current gives the old bundle     *)
C39_Witness ==
  /\ last.op = "import"
  /\ ~last.ok
  /\ last.interrupted = Pair("newer")
  /\ disk.feed_bundle = [bundle |-> "newer", sig |-> "good"]
  /\ disk.feed_last_good = Pair("good")
  /\ load_current_at(disk, now).bundle = Some("good")

(***************************************************************************)
(* Vocabulary of the recorded-action properties                            *)
(***************************************************************************)
(* The kill switch is engaged for the incident handled last: the state     *)
(* that handle_incident leaves is the one enable_auto saved                *)
EngagedFor(id) ==
  /\ state.enabled
  /\ state.enabled_mode = Some("AutoRedOnly")
  /\ state.last_incident_id = id
  /\ InGroup(fw.out)
  /\ InGroup(fw.inb)

(* C40 as stated: after handle_incident the incident's actions contain     *)
(* killswitch_enable_auto only if the kill switch was engaged for it: the  *)
(* persisted state is enabled, AutoRedOnly, with the incident's id, and    *)
(* both rules are in place.                                                *)
C40_RecordedOnlyIfEngaged_AsStated ==
  (last.op = "handle_incident" /\ Taken(last.actions, "killswitch_enable_auto")) =>
    EngagedFor(last.id)

(* C40, what holds: the same outside a dry run *)
RecordedOnlyIfEngagedLive ==
  (/\ last.op = "handle_incident" /\ Taken(last.actions, "killswitch_enable_auto")
   /\ ~last.dry) =>
    /\ EngagedFor(last.id)
    /\ CalledWith(last.calls, "enable_rules", "ok")
    /\ CalledWith(last.calls, "save_state", "ok")

(* a dry run has recorded killswitch_enable_auto and engaged nothing *)
RecordedInDryRun ==
  /\ last.op = "handle_incident"
  /\ last.dry
  /\ Taken(last.actions, "killswitch_enable_auto")
  /\ Taken(last.actions, "killswitch_failsafe_deadline_set")
  /\ ~state.enabled
  /\ fw = NoRules
  /\ last.calls = << <<"enable_auto", "ok">> >>

=============================================================================
